---- MODULE Spec2Model ----
(***************************************************************************)
(* A model of the r2dec mid-end: the SSA builder (phi insertion, renaming, *)
(* phi relaxation), the def-use context, the pruning and propagation       *)
(* passes, and the expression simplifier.                                  *)
(*                                                                         *)
(* Expressions live in an arena (`nodes`): an expression object is its     *)
(* index, so that parent, def and uses links are links between objects as  *)
(* they are in the JavaScript source.                                      *)
(***************************************************************************)
EXTENDS Integers, Sequences, FiniteSets, TLC

VARIABLES
    pc,        \* position of r2dec_main in its pipeline
    shape,     \* which control flow graph the analysed function has
    bodies,    \* which body each free block of the function was given
    ssa,       \* the SSA object: the function's IR and the SSA context
    snap,      \* the IR and context as they were at the end of the previous pass
    sx,        \* the simplifier's state (expression under reduction)
    conf,      \* the configuration and what the architecture says of register y
    live       \* what the last call of get_live_ranges was given and found

vars == <<pc, shape, bodies, ssa, snap, sx, conf, live>>

(***************************************************************************)
(* Bounds of the model.                                                    *)
(***************************************************************************)
\* how many of the block bodies listed in Bodies a block may be given
NumBodies == 11

\* width in bits of the scaled-down Long integer (64 in the source)
LongBits == 4

\* how many rule firings one reduce_expr call may perform before it is cut
Fuel == 12

(***************************************************************************)
(* Small helpers on sequences.                                             *)
(***************************************************************************)
Null == 0
NoIdx == 0 - 1

Range(s) == { s[i] : i \in DOMAIN s }

\* Array.prototype.indexOf, 1-based; 0 when absent
IndexOf(s, e) ==
    IF \E i \in DOMAIN s : s[i] = e
    THEN CHOOSE i \in DOMAIN s : s[i] = e /\ \A j \in 1..(i - 1) : s[j] # e
    ELSE 0

RemoveAt(s, i) == SubSeq(s, 1, i - 1) \o SubSeq(s, i + 1, Len(s))

\* remove the first occurrence of e, if any
RemoveFirst(s, e) ==
    LET i == IndexOf(s, e) IN IF i = 0 THEN s ELSE RemoveAt(s, i)

InsertAt(s, i, e) == SubSeq(s, 1, i - 1) \o <<e>> \o SubSeq(s, i, Len(s))

\* JavaScript runs the steps of a function one after another, while TLC
\* computes the argument of an operator where the operator first reads it.
\* Settled(v) reads v: the step that made v is computed before the next one
\* starts instead of inside it.
Settled(v) == v = v

\* the sequence of n copies of v
RECURSIVE Fill(_, _)
Fill(n, v) == IF n = 0 THEN <<>> ELSE Append(Fill(n - 1, v), v)

\* s with its first occurrence of a replaced by b
Subst(s, a, b) ==
    LET i == IndexOf(s, a) IN IF i = 0 THEN s ELSE [s EXCEPT ![i] = b]

\* JavaScript objects used as maps: (key, value) pairs in insertion order
\* where the key is in the table; 0 when absent
KeyIndex(tbl, key) ==
    IF \E i \in DOMAIN tbl : tbl[i].key = key
    THEN CHOOSE i \in DOMAIN tbl : tbl[i].key = key /\ \A j \in 1..(i - 1) : tbl[j].key # key
    ELSE 0
Has(tbl, key) == KeyIndex(tbl, key) # 0
Get(tbl, key) == tbl[KeyIndex(tbl, key)].v
Put(tbl, key, v) ==
    IF Has(tbl, key) THEN [tbl EXCEPT ![KeyIndex(tbl, key)].v = v]
    ELSE Append(tbl, [key |-> key, v |-> v])

Count(s, e) == Cardinality({ i \in DOMAIN s : s[i] = e })

RECURSIVE Flatten(_)
Flatten(ss) == IF ss = <<>> THEN <<>> ELSE Head(ss) \o Flatten(Tail(ss))

\* the elements of a set of integers in ascending order
RECURSIVE SortedSeq(_)
SortedSeq(S) ==
    IF S = {} THEN <<>>
    ELSE LET lo == CHOOSE a \in S : \A b \in S : a <= b
         IN <<lo>> \o SortedSeq(S \ {lo})

(***************************************************************************)
(* Control flow graphs.  A basic block is its address 1..n; block 1 is the *)
(* entry block.  `jump` and `fail` name a block's successors (0: none).    *)
(***************************************************************************)
\* a single block
Line == [jump |-> <<0>>, fail |-> <<0>>]

\* 1 -> {2, 3} -> 4
Diamond == [jump |-> <<2, 4, 4, 0>>, fail |-> <<3, 0, 0, 0>>]

\* 1 -> 2 (header) -> {4 (exit), 3 (body)}, 3 -> 2
Loop == [jump |-> <<2, 4, 2, 0>>, fail |-> <<0, 3, 0, 0>>]

\* 1 -> {2, 4}, 2 -> {5, 3}, 3 -> 4, 4 -> 5: a join (4) feeding a join (5)
Chain == [jump |-> <<2, 5, 4, 5, 0>>, fail |-> <<4, 3, 0, 0, 0>>]

\* 1 -> {2, 3}, 2 -> 3 twice: the jump and the fail of block 2 are the
\* same block
Twin == [jump |-> <<2, 3, 0>>, fail |-> <<3, 3, 0>>]

\* 1 -> {2, 3}, 2 -> {3, 4}, 3 -> {4, 5}, 4 -> 5: three joins (3, 4, 5),
\* the first feeding the other two and the second feeding the third
Ladder == [jump |-> <<2, 3, 4, 5, 0>>, fail |-> <<3, 4, 5, 0, 0>>]

Shapes == <<Line, Diamond, Loop, Chain, Twin, Ladder>>

\* the blocks whose body is an input of the model, per shape (the single
\* block of Line is given two bodies, one after the other); the last block
\* of every shape ends the function with `return x`
FreeBlocks == << <<1, 1>>, <<2, 3>>, <<1, 3>>, <<2, 3>>, <<1, 2>>, <<2, 5>> >>

NBlocks(g) == Len(g.jump)
Blocks(g) == 1..NBlocks(g)

\* Function.prototype.cfg: per block, the jump edge and then the fail edge
RECURSIVE Edges(_, _)
Edges(g, b) ==
    IF b > NBlocks(g) THEN <<>>
    ELSE (IF g.jump[b] # 0 THEN << <<b, g.jump[b]>> >> ELSE <<>>)
      \o (IF g.fail[b] # 0 THEN << <<b, g.fail[b]>> >> ELSE <<>>)
      \o Edges(g, b + 1)

cfg(g) == Edges(g, 1)

RECURSIVE EdgeEnds(_, _, _, _)
EdgeEnds(es, n, from, to) ==
    IF es = <<>> THEN <<>>
    ELSE (IF Head(es)[from] = n THEN <<Head(es)[to]>> ELSE <<>>)
         \o EdgeEnds(Tail(es), n, from, to)

\* Graph.Directed: one entry per edge, in the order the edges were added
successors(g, n) == EdgeEnds(cfg(g), n, 1, 2)
predecessors(g, n) == EdgeEnds(cfg(g), n, 2, 1)

\* blocks reachable from `from` along paths that avoid block `cut`
RECURSIVE ReachAvoid(_, _, _)
ReachAvoid(g, seen, cut) ==
    LET nxt == { t \in Blocks(g) \ {cut} :
                   \E s \in seen : t \in Range(successors(g, s)) }
    IN IF nxt \subseteq seen THEN seen ELSE ReachAvoid(g, seen \cup nxt, cut)

Reachable(g) == ReachAvoid(g, {1}, 0)

\* a dominates b: every path from the entry block to b passes through a
Dominates(g, a, b) ==
    \/ a = b
    \/ (a # 1 /\ b \notin ReachAvoid(g, {1}, a))
    \/ (a = 1 /\ b \in Reachable(g))

StrictlyDominates(g, a, b) == a # b /\ Dominates(g, a, b)

\* immediate dominator of a reachable block other than the entry block
idom(g, b) ==
    CHOOSE d \in Reachable(g) :
        /\ StrictlyDominates(g, d, b)
        /\ \A e \in Reachable(g) : StrictlyDominates(g, e, b) => Dominates(g, e, d)

\* DominatorTree.successors: the blocks a block immediately dominates
domSuccessors(g, n) ==
    SortedSeq({ b \in Reachable(g) \ {1} : idom(g, b) = n })

\* DominatorTree.dominanceFrontier
dominanceFrontier(g, n) ==
    SortedSeq({ y \in Reachable(g) :
                  /\ \E p \in Range(predecessors(g, y)) : Dominates(g, n, p)
                  /\ ~StrictlyDominates(g, n, y) })

(***************************************************************************)
(* The expression arena.  Kinds: "Val", "Reg", "Var", "Deref", "Add",      *)
(* "Call", "Intrinsic", "Phi", "Assign".  A node's parent is the node      *)
(* holding it as an operand; a statement's top expression has no parent    *)
(* and names its statement instead.                                        *)
(***************************************************************************)
Node(kind, name, value) ==
    [kind |-> kind, name |-> name, value |-> value, operands |-> <<>>,
     parent |-> Null, stmt |-> Null, idx |-> NoIdx, def |-> Null,
     uses |-> <<>>, is_def |-> FALSE, weak |-> FALSE, is_safe |-> FALSE,
     prune |-> FALSE]

\* the container a statement is in: a block address, Uninit, or Null
Uninit == 0 - 1

\* instanceof: Expr.Var is a subclass of Expr.Reg, Expr.Intrinsic of Expr.Call
IsReg(n) == n.kind \in {"Reg", "Var"}
IsVar(n) == n.kind = "Var"
IsDeref(n) == n.kind = "Deref"
IsPhi(n) == n.kind = "Phi"
IsCall(n) == n.kind \in {"Call", "Intrinsic"}
IsAssign(n) == n.kind = "Assign"

Subscript(n) == IF n.idx = NoIdx THEN "" ELSE "_" \o ToString(n.idx)

RECURSIVE ReprOf(_, _, _)
\* Expr.prototype.repr (own = FALSE) and toString (own = TRUE): the text of
\* an expression, with or without the subscript of the expression itself
ReprOf(nodes, id, own) ==
    LET n == nodes[id]
        sub == IF own THEN Subscript(n) ELSE ""
        op(i) == ReprOf(nodes, n.operands[i], TRUE)
        RECURSIVE args(_)
        args(i) == IF i > Len(n.operands) THEN ""
                   ELSE (IF i > 1 THEN ", " ELSE "") \o op(i) \o args(i + 1)
    IN CASE n.kind = "Val" -> ToString(n.value)
         [] n.kind \in {"Reg", "Var"} -> n.name \o sub
         [] n.kind = "Deref" -> "*(" \o op(1) \o ")" \o sub
         [] n.kind = "Add" -> "(" \o op(1) \o " + " \o op(2) \o ")"
         [] n.kind = "Assign" -> op(1) \o " = " \o op(2)
         [] n.kind \in {"Call", "Intrinsic"} -> n.name \o "(" \o args(1) \o ")"
         [] OTHER -> "phi(" \o args(1) \o ")"

toString(nodes, id) == ReprOf(nodes, id, TRUE)
repr(nodes, id) == ReprOf(nodes, id, FALSE)

\* Expr.prototype.equals and equals_no_idx
equals(nodes, a, b) == toString(nodes, a) = toString(nodes, b)
equals_no_idx(nodes, a, b) == repr(nodes, a) = repr(nodes, b)

RECURSIVE iter_operands(_, _, _)
\* Expr.prototype.iter_operands: the expression and everything nested in
\* it; depth first lists operands before the expression holding them
iter_operands(nodes, id, depth_first) ==
    LET n == nodes[id]
        RECURSIVE sub(_)
        sub(i) == IF i > Len(n.operands) THEN <<>>
                  ELSE iter_operands(nodes, n.operands[i], depth_first) \o sub(i + 1)
    IN IF depth_first THEN sub(1) \o <<id>> ELSE <<id>> \o sub(1)

\* Phi.prototype.has: is some argument of the phi equal to the expression
has(nodes, phi, o) ==
    \E i \in DOMAIN nodes[phi].operands : equals(nodes, nodes[phi].operands[i], o)

RECURSIVE clone_rec(_, _, _, _)
\* copies expression id under the new parent; the copy is the node numbered
\* Len(nodes) + 1.  A preserved def link makes the copy a user of that def
clone_rec(nodes, id, keep, parent) ==
    LET n == nodes[id]
        me == Len(nodes) + 1
        copy == [Node(n.kind, n.name, n.value) EXCEPT
                    !.parent = parent,
                    !.idx = IF "idx" \in keep THEN n.idx ELSE NoIdx,
                    !.def = IF "def" \in keep THEN n.def ELSE Null,
                    !.is_safe = IF "is_safe" \in keep THEN n.is_safe ELSE FALSE,
                    !.weak = IF "weak" \in keep THEN n.weak ELSE FALSE]
        n0 == Append(nodes, copy)
        n1 == IF copy.def = Null THEN n0
              ELSE [n0 EXCEPT ![copy.def].uses = Append(@, me)]
        RECURSIVE ops(_, _)
        ops(ns, i) ==
            IF i > Len(n.operands) THEN ns
            ELSE LET c == Len(ns) + 1
                     ns2 == clone_rec(ns, n.operands[i], keep, me)
                 IN ops([ns2 EXCEPT ![me].operands = Append(@, c),
                                    ![c].is_def = (n.kind = "Assign" /\ i = 1)],
                        i + 1)
    IN ops(n1, 1)

\* Expr.prototype.clone; the copy is m.ret
clone(m, id, keep) ==
    [m EXCEPT !.nodes = clone_rec(m.nodes, id, keep, Null),
              !.ret = Len(m.nodes) + 1]

RECURSIVE detach_list(_, _)
detach_list(nodes, ids) ==
    IF ids = <<>> THEN nodes
    ELSE LET o == Head(ids)
             d == nodes[o].def
         IN detach_list(
              IF d = Null THEN nodes
              ELSE [nodes EXCEPT ![d].uses = RemoveFirst(@, o), ![o].def = Null],
              Tail(ids))

\* removes every operand nested in the expression from its definition's users
detach_uses(nodes, id) == detach_list(nodes, iter_operands(nodes, id, TRUE))

\* Stmt.prototype.pluck: take a statement out of its container
pluck_stmt(m, s) ==
    LET c == m.stmts[s].parent
    IN [m EXCEPT !.stmts[s].parent = Null,
                 !.blocks = IF c >= 1 THEN [@ EXCEPT ![c] = RemoveFirst(@, s)] ELSE @,
                 !.uninit = IF c = Uninit THEN RemoveFirst(@, s) ELSE @]

\* Expr.prototype.pluck: take an expression out of the operand list or the
\* statement holding it; a statement left without expressions goes too
pluck_at(m, id) ==
    LET p == m.nodes[id].parent
        s == m.nodes[id].stmt
    IN IF p # Null
       THEN [m EXCEPT !.nodes[p].operands = RemoveFirst(@, id),
                      !.nodes[id].parent = Null,
                      !.nodes[id].is_def = FALSE,
                      !.ret = id]
       ELSE IF s # Null
       THEN LET m2 == [m EXCEPT !.stmts[s].expressions = RemoveFirst(@, id),
                                !.nodes[id].stmt = Null,
                                !.ret = id]
            IN IF m2.stmts[s].expressions = <<>> THEN [pluck_stmt(m2, s) EXCEPT !.ret = id]
               ELSE m2
       ELSE [m EXCEPT !.ret = id]

pluck(m, id, detach) ==
    pluck_at(IF detach THEN [m EXCEPT !.nodes = detach_uses(m.nodes, id)] ELSE m, id)

RECURSIVE attach_list(_, _)
attach_list(nodes, ids) ==
    IF ids = <<>> THEN nodes
    ELSE LET o == Head(ids)
             d == nodes[o].def
         IN attach_list(
              IF d = Null \/ IndexOf(nodes[d].uses, o) # 0 THEN nodes
              ELSE [nodes EXCEPT ![d].uses = Append(@, o)],
              Tail(ids))

\* Expr.prototype.replace: put `new` where `old` is; the operands of `old`
\* stop being users, the operands of `new` are users of their definitions
\* the operands nested in the expression become users of their definitions
attach_uses(nodes, id) == attach_list(nodes, iter_operands(nodes, id, TRUE))

\* `new` takes the place, the parent and the statement of `old`
put_in_place(nodes, old, new) ==
    LET p == nodes[old].parent
        ns1 == [nodes EXCEPT ![new].parent = p, ![new].stmt = nodes[old].stmt,
                             ![new].is_def = nodes[old].is_def,
                             ![old].parent = Null, ![old].stmt = Null,
                             ![old].is_def = FALSE]
    IN IF p = Null THEN ns1
       ELSE [ns1 EXCEPT ![p].operands = Subst(ns1[p].operands, old, new)]

replace(m, old, new) ==
    LET s == m.nodes[old].stmt
    IN [m EXCEPT !.nodes = attach_uses(put_in_place(detach_uses(m.nodes, old), old, new),
                                       new),
                 !.stmts = IF s = Null THEN @
                           ELSE [@ EXCEPT ![s].expressions =
                                   Subst(m.stmts[s].expressions, old, new)],
                 !.ret = new]

\* Expr.prototype.push_operand
push_operand(m, parent, id) ==
    [m EXCEPT !.nodes[parent].operands = Append(@, id),
              !.nodes[id].parent = parent]

(***************************************************************************)
(* The analysed function: statements are built from templates, the way the *)
(* lifter builds them from the instructions of a basic block.              *)
(***************************************************************************)
T(k, n, v, ops) == [k |-> k, n |-> n, v |-> v, ops |-> ops]
TReg(n) == T("Reg", n, 0, <<>>)
TVal(v) == T("Val", "", v, <<>>)
TDeref(a) == T("Deref", "", 0, <<a>>)
TAdd(a, b) == T("Add", "", 0, <<a, b>>)
TCall(f) == T("Call", f, 0, <<>>)
\* an intrinsic has its arguments from the start
TIntrinsic(f, args) == T("Intrinsic", f, 0, args)
TAssign(l, r) == T("Assign", "", 0, <<l, r>>)

\* the bodies a free block may have; a block is given one of the first
\* NumBodies of them
Bodies == <<
    <<>>,
    << TAssign(TReg("x"), TVal(1)) >>,
    << TAssign(TReg("x"), TAdd(TReg("x"), TVal(1))) >>,
    << TAssign(TReg("x"), TReg("x")), TAssign(TReg("y"), TReg("x")) >>,
    << TAssign(TReg("y"), TAdd(TReg("y"), TVal(1))), TAssign(TReg("x"), TReg("x")) >>,
    << TAssign(TReg("x"), TDeref(TReg("y"))) >>,
    << TAssign(TDeref(TReg("y")), TReg("x")) >>,
    << TAssign(TReg("x"), TCall("f")) >>,
    << TAssign(TReg("x"), TVal(2)) >>,
    << TAssign(TReg("x"), TIntrinsic("g", << TReg("y") >>)) >>,
    << TAssign(TReg("x"), TVal(1)), TAssign(TReg("y"), TReg("x")) >>,
    << TAssign(TReg("y"), TVal(1)) >>,
    << TAssign(TReg("y"), TDeref(TReg("x"))) >> >>

RECURSIVE add_expr(_, _, _)
\* builds the expression of a template under `parent`; the result is the
\* node numbered Len(nodes) + 1
add_expr(nodes, t, parent) ==
    LET me == Len(nodes) + 1
        n0 == Append(nodes, [Node(t.k, t.n, t.v) EXCEPT !.parent = parent])
        RECURSIVE ops(_, _)
        ops(ns, i) ==
            IF i > Len(t.ops) THEN ns
            ELSE LET c == Len(ns) + 1
                     ns2 == add_expr(ns, t.ops[i], me)
                 IN ops([ns2 EXCEPT ![me].operands = Append(@, c),
                                    ![c].is_def = (t.k = "Assign" /\ i = 1)],
                        i + 1)
    IN ops(n0, 1)

\* new Stmt over the expression m.ret; the statement is m.ret
make_stmt(m, kind) ==
    LET s == Len(m.stmts) + 1
        e == m.ret
    IN [m EXCEPT !.stmts = Append(@, [kind |-> kind, expressions |-> <<e>>,
                                       parent |-> Null, address |-> 0]),
                 !.nodes[e].stmt = s,
                 !.ret = s]

\* the address of the statement m.ret, counted from the address of its
\* block: the statements lifted from the instructions of a block are at
\* 0, 1, ...; Stmt.make_statement gives a phi the address of its block and
\* a placeholder of the uninit container the address 0
at_address(m, a) == [m EXCEPT !.stmts[m.ret].address = a]

\* Container.prototype.push_stmt and unshift_stmt, of the statement m.ret
push_stmt(m, c) ==
    [m EXCEPT !.stmts[m.ret].parent = c,
              !.blocks = IF c >= 1 THEN [@ EXCEPT ![c] = Append(@, m.ret)] ELSE @,
              !.uninit = IF c = Uninit THEN Append(@, m.ret) ELSE @]

unshift_stmt(m, c) ==
    [m EXCEPT !.stmts[m.ret].parent = c,
              !.blocks = IF c >= 1 THEN [@ EXCEPT ![c] = <<m.ret>> \o @] ELSE @,
              !.uninit = IF c = Uninit THEN <<m.ret>> \o @ ELSE @]

\* Stmt.prototype.push_expr_after: put expression e after expression `after`
push_expr_after(m, s, e, after) ==
    LET i == IndexOf(m.stmts[s].expressions, after)
    IN [m EXCEPT !.stmts[s].expressions = InsertAt(@, i + 1, e),
                 !.nodes[e].stmt = s,
                 !.nodes[e].parent = Null]

RECURSIVE lift_body(_, _, _, _)
lift_body(m, b, body, kind) ==
    IF body = <<>> THEN m
    ELSE lift_body(push_stmt(at_address(make_stmt([m EXCEPT !.nodes = add_expr(@, Head(body), Null),
                                                             !.ret = Len(m.nodes) + 1],
                                                  kind),
                                        Len(m.blocks[b])),
                             b),
                   b, Tail(body), kind)

\* new SSA(func): Context constructor, over a function still to be lifted
EmptySSA(g) ==
    [nodes |-> <<>>, stmts |-> <<>>,
     blocks |-> Fill(NBlocks(g), <<>>),
     uninit |-> <<>>,
     defs |-> <<>>,
     count |-> <<>>, stack |-> <<>>,
     redefined |-> FALSE,
     preserved |-> <<>>,
     ret |-> 0]

RECURSIVE lift_blocks(_, _, _, _)
\* the function of a shape whose free blocks have the bodies chosen by f
lift_blocks(m, sh, f, i) ==
    IF i > Len(FreeBlocks[sh]) THEN m
    ELSE lift_blocks(lift_body(m, FreeBlocks[sh][i], Bodies[f[i]], "Expr"), sh, f, i + 1)

Function(sh, f) ==
    LET g == Shapes[sh]
        m == lift_blocks(EmptySSA(g), sh, f, 1)
    IN lift_body(m, NBlocks(g), << TReg("x") >>, "Return")

(***************************************************************************)
(* The SSA context: definitions, users, and the renaming counters.         *)
(***************************************************************************)
\* new Expr over operands that exist already; the expression is m.ret
new_expr(m, kind, operands) ==
    LET me == Len(m.nodes) + 1
        n0 == Append(m.nodes, [Node(kind, "", 0) EXCEPT !.operands = operands])
        RECURSIVE adopt(_, _)
        adopt(ns, i) ==
            IF i > Len(operands) THEN ns
            ELSE adopt([ns EXCEPT ![operands[i]].parent = me,
                                  ![operands[i]].is_def = (kind = "Assign" /\ i = 1)],
                       i + 1)
    IN [m EXCEPT !.nodes = adopt(n0, 1), !.ret = me]

\* the wave's selector: select_regs, select_vars, select_derefs
selector(sel, n) ==
    CASE sel = "Reg" -> IsReg(n)
      [] sel = "Var" -> IsVar(n)
      [] OTHER -> IsDeref(n)

\* the operands of every expression of every statement of a container
RECURSIVE stmts_operands(_, _, _)
stmts_operands(m, ss, depth_first) ==
    IF ss = <<>> THEN <<>>
    ELSE LET es == m.stmts[Head(ss)].expressions
         IN Flatten([i \in DOMAIN es |-> iter_operands(m.nodes, es[i], depth_first)])
            \o stmts_operands(m, Tail(ss), depth_first)

func_operands(m) ==
    Flatten([b \in DOMAIN m.blocks |-> stmts_operands(m, m.blocks[b], FALSE)])

RECURSIVE initialize_rec(_, _, _)
initialize_rec(m, sel, ops) ==
    IF ops = <<>> THEN m
    ELSE LET op == Head(ops)
             r == repr(m.nodes, op)
         IN initialize_rec(IF selector(sel, m.nodes[op])
                           THEN [m EXCEPT !.count = Put(m.count, r, 0),
                                          !.stack = Put(m.stack, r, <<0>>)]
                           ELSE m,
                           sel, Tail(ops))

RECURSIVE initialize_stmts(_, _, _)
\* the statements of the function, one after another
initialize_stmts(m, sel, ss) ==
    IF Settled(m) /\ ss = <<>> THEN m
    ELSE initialize_stmts(
            initialize_rec(m, sel, stmts_operands(m, <<Head(ss)>>, FALSE)),
            sel, Tail(ss))

initialize(m, sel) ==
    initialize_stmts([m EXCEPT !.count = <<>>, !.stack = <<>>], sel, Flatten(m.blocks))

add_def(m, v) ==
    LET key == toString(m.nodes, v)
    IN [m EXCEPT !.redefined = @ \/ Has(m.defs, key),
                 !.defs = Put(m.defs, key, v),
                 !.nodes[v].uses = <<>>]

\* new Expr.Assign(lhand, new Expr.Val(0)) over the weak copy m.ret
uninit_assign(m) ==
    new_expr([m EXCEPT !.nodes = Append(@, Node("Val", "", 0)),
                       !.nodes[m.ret].weak = TRUE],
             "Assign", <<m.ret, Len(m.nodes) + 1>>)

\* add_def of the left-hand side of the assignment that statement m.ret holds
add_stmt_def(m) == add_def(m, m.nodes[m.stmts[m.ret].expressions[1]].operands[1])

\* faulty variant of uninit_def: the placeholder assignment is registered but
\* its statement is never pushed into the uninit container
uninit_def_unpushed(m, u) ==
    add_stmt_def(make_stmt(uninit_assign(clone(m, u, {"idx"})), "Expr"))

\* the placeholder `u_0 = 0` that add_use puts in the uninit container
uninit_def(m, u) ==
    add_stmt_def(push_stmt(make_stmt(uninit_assign(clone(m, u, {"idx"})), "Expr"),
                           Uninit))

\* use.def = def; def.uses.push(use), for the definition of the given text
link_use(m, u, key) ==
    LET def == Get(m.defs, key)
    IN [m EXCEPT !.nodes[u].def = def,
                 !.nodes[def].uses = Append(@, u)]

\* faulty variant of add_use: a placeholder is made for every use
add_use_always_new(m, u) == link_use(uninit_def(m, u), u, toString(m.nodes, u))

add_use(m, u) ==
    link_use(IF Has(m.defs, toString(m.nodes, u)) THEN m ELSE uninit_def(m, u),
             u, toString(m.nodes, u))

delete_keys(defs, keys) == SelectSeq(defs, LAMBDA d : d.key \notin keys)

(***************************************************************************)
(* Phi insertion.                                                          *)
(***************************************************************************)
RECURSIVE local_defs_rec(_, _, _, _)
local_defs_rec(m, sel, ops, defs) ==
    IF ops = <<>> THEN defs
    ELSE LET op == Head(ops)
             RECURSIVE findIndex(_)
             findIndex(i) == IF i > Len(defs) THEN 0
                             ELSE IF equals_no_idx(m.nodes, defs[i], op) THEN i
                             ELSE findIndex(i + 1)
             idx == findIndex(1)
         IN local_defs_rec(m, sel, Tail(ops),
              IF selector(sel, m.nodes[op]) /\ m.nodes[op].is_def
              THEN Append(IF idx # 0 THEN RemoveAt(defs, idx) ELSE defs, op)
              ELSE defs)

_find_local_defs(m, sel, b) ==
    local_defs_rec(m, sel, stmts_operands(m, m.blocks[b], FALSE), <<>>)

RECURSIVE defsites_rec(_, _, _, _)
\* the definition expressions by text, each with the blocks defining it
defsites_rec(m, defs, work, sites) ==
    IF work = <<>> THEN sites
    ELSE LET blk == Head(work)[1]
             d == Head(work)[2]
             key == toString(m.nodes, d)
             at == CHOOSE i \in 0..Len(sites) :
                      IF \E j \in DOMAIN sites : sites[j].key = key
                      THEN i # 0 /\ sites[i].key = key ELSE i = 0
         IN defsites_rec(m, defs, Tail(work),
              IF at = 0 THEN Append(sites, [a |-> d, key |-> key, W |-> <<blk>>])
              ELSE [sites EXCEPT ![at].W = Append(@, blk)])

RECURSIVE phi_args(_, _, _, _)
\* n copies of a, the arguments of a phi; they are m.ret
phi_args(m, a, n, ids) ==
    IF n = 0 THEN [m EXCEPT !.ret = ids]
    ELSE phi_args(clone(m, a, {"idx", "def", "is_safe", "weak"}), a, n - 1,
                  Append(ids, Len(m.nodes) + 1))

\* new Expr.Assign(lhand, m.ret)
new_assign(m, lhand) == new_expr(m, "Assign", <<lhand, m.ret>>)

\* the weak copy m.ret is assigned new Expr.Phi over the arguments
new_phi(m, args) ==
    new_assign(new_expr([m EXCEPT !.nodes[m.ret].weak = TRUE], "Phi", args), m.ret)

\* the phi assignment of a over the arguments m.ret
phi_assign(m, a) == new_phi(clone(m, a, {"idx", "def", "is_safe"}), m.ret)

\* a = Phi(a, ..., a) at the top of block y
make_phi(m, a, y, npreds) ==
    unshift_stmt(make_stmt(phi_assign(phi_args(m, a, npreds, <<>>), a), "Expr"), y)

RECURSIVE phi_frontier_once(_, _, _, _, _)
\* faulty variant of the loop body: a block given a phi is not put on the
\* worklist
phi_frontier_once(st, g, defs, a, ys) ==
    IF ys = <<>> THEN st
    ELSE LET y == Head(ys)
         IN phi_frontier_once(
              IF IndexOf(st.phis[y], a) = 0
              THEN [m |-> make_phi(st.m, a, y, Len(predecessors(g, y))),
                    phis |-> [st.phis EXCEPT ![y] = Append(@, a)],
                    W |-> st.W]
              ELSE st,
              g, defs, a, Tail(ys))

RECURSIVE phi_frontier(_, _, _, _, _)
\* the body of the loop over dominanceFrontier(n), for definition a
phi_frontier(st, g, defs, a, ys) ==
    IF ys = <<>> THEN st
    ELSE LET y == Head(ys)
         IN phi_frontier(
              IF IndexOf(st.phis[y], a) = 0
              THEN [m |-> make_phi(st.m, a, y, Len(predecessors(g, y))),
                    phis |-> [st.phis EXCEPT ![y] = Append(@, a)],
                    W |-> IF IndexOf(defs[y], a) = 0 THEN Append(st.W, y) ELSE st.W]
              ELSE st,
              g, defs, a, Tail(ys))

RECURSIVE phi_worklist(_, _, _, _)
\* while (W.length > 0)
phi_worklist(st, g, defs, a) ==
    IF st.W = <<>> THEN st
    ELSE LET n == st.W[Len(st.W)]
             popped == [st EXCEPT !.W = SubSeq(@, 1, Len(@) - 1)]
         IN phi_worklist(phi_frontier(popped, g, defs, a, dominanceFrontier(g, n)),
                         g, defs, a)

RECURSIVE phi_sites(_, _, _, _)
phi_sites(st, g, defs, sites) ==
    IF sites = <<>> THEN st.m
    ELSE phi_sites(phi_worklist([st EXCEPT !.W = Head(sites).W], g, defs, Head(sites).a),
                   g, defs, Tail(sites))

\* the phis of the definitions local to each block
insert_phi_defs(m, g, defs) ==
    phi_sites([m |-> m, phis |-> Fill(NBlocks(g), <<>>), W |-> <<>>],
              g, defs,
              defsites_rec(m, defs,
                           Flatten([b \in Blocks(g) |->
                                      [i \in DOMAIN defs[b] |-> <<b, defs[b][i]>>]]),
                           <<>>))

insert_phi_exprs(m, sel, g) ==
    insert_phi_defs(m, g, [b \in Blocks(g) |-> _find_local_defs(m, sel, b)])

(***************************************************************************)
(* Renaming.                                                               *)
(***************************************************************************)
is_phi_assignment(nodes, e) ==
    IsAssign(nodes[e]) /\ IsPhi(nodes[nodes[e].operands[2]])

top(arr) == arr[Len(arr)]

\* gives a use the subscript on top of its stack and links it to its def
rename_use(m, op) ==
    LET r == repr(m.nodes, op)
        m1 == IF Has(m.stack, r) THEN m
              ELSE [m EXCEPT !.stack = Put(m.stack, r, <<0>>),
                             !.count = Put(m.count, r, 0)]
    IN add_use([m1 EXCEPT !.nodes[op].idx = top(Get(m1.stack, r))], op)

\* faulty variant of rename_def: the counter of the name is not advanced
rename_def_no_count(m, op) ==
    LET r == repr(m.nodes, op)
        c == Get(m.count, r)
    IN add_def([m EXCEPT !.stack = Put(m.stack, r, Append(Get(m.stack, r), c)),
                         !.nodes[op].idx = c], op)

rename_def(m, op) ==
    LET r == repr(m.nodes, op)
        c == Get(m.count, r) + 1
    IN add_def([m EXCEPT !.count = Put(m.count, r, c),
                         !.stack = Put(m.stack, r, Append(Get(m.stack, r), c)),
                         !.nodes[op].idx = c], op)

RECURSIVE rename_ops(_, _, _, _)
\* one forEach over iter_operands(true): the uses or the definitions
rename_ops(m, sel, ops, defs) ==
    IF Settled(m) /\ ops = <<>> THEN m
    ELSE LET op == Head(ops)
             hit == selector(sel, m.nodes[op]) /\ (m.nodes[op].is_def = defs)
         IN rename_ops(IF ~hit THEN m
                       ELSE IF defs THEN rename_def(m, op) ELSE rename_use(m, op),
                       sel, Tail(ops), defs)

RECURSIVE rename_exprs(_, _, _, _)
rename_exprs(m, sel, es, defs) ==
    IF Settled(m) /\ es = <<>> THEN m
    ELSE LET e == Head(es)
             skip == ~defs /\ is_phi_assignment(m.nodes, e)
         IN rename_exprs(IF skip THEN m
                         ELSE rename_ops(m, sel, iter_operands(m.nodes, e, TRUE), defs),
                         sel, Tail(es), defs)

RECURSIVE rename_stmts_defs_first(_, _, _)
\* faulty variant of rename_stmts: the definitions of a statement before
\* its uses
rename_stmts_defs_first(m, sel, ss) ==
    IF Settled(m) /\ ss = <<>> THEN m
    ELSE LET es == m.stmts[Head(ss)].expressions
         IN rename_stmts_defs_first(
                rename_exprs(rename_exprs(m, sel, es, TRUE), sel, es, FALSE),
                sel, Tail(ss))

RECURSIVE rename_stmts(_, _, _)
\* per statement: first the uses, then the definitions
rename_stmts(m, sel, ss) ==
    IF Settled(m) /\ ss = <<>> THEN m
    ELSE LET es == m.stmts[Head(ss)].expressions
         IN rename_stmts(rename_exprs(rename_exprs(m, sel, es, FALSE), sel, es, TRUE),
                         sel, Tail(ss))

RECURSIVE rename_phi_args(_, _, _, _)
\* the j-th argument of every selected phi of a successor block
rename_phi_args(m, sel, es, j) ==
    IF Settled(m) /\ es = <<>> THEN m
    ELSE LET e == Head(es)
             hit == /\ is_phi_assignment(m.nodes, e)
                    /\ selector(sel, m.nodes[m.nodes[e].operands[1]])
             phi == m.nodes[e].operands[2]
         IN rename_phi_args(
              IF hit THEN rename_use(m, m.nodes[phi].operands[j]) ELSE m,
              sel, Tail(es), j)

block_exprs(m, b) ==
    Flatten([i \in DOMAIN m.blocks[b] |-> m.stmts[m.blocks[b][i]].expressions])

\* faulty variant of rename_successors: the first argument of the phis is
\* renamed whichever predecessor the block is
RECURSIVE rename_successors_first_arg(_, _, _, _, _)
rename_successors_first_arg(m, sel, g, n, Ys) ==
    IF Settled(m) /\ Ys = <<>> THEN m
    ELSE rename_successors_first_arg(
            rename_phi_args(m, sel, block_exprs(m, Head(Ys)), 1),
            sel, g, n, Tail(Ys))

RECURSIVE rename_successors(_, _, _, _, _)
rename_successors(m, sel, g, n, Ys) ==
    IF Settled(m) /\ Ys = <<>> THEN m
    ELSE LET Y == Head(Ys)
             j == IndexOf(predecessors(g, Y), n)
         IN rename_successors(rename_phi_args(m, sel, block_exprs(m, Y), j),
                              sel, g, n, Tail(Ys))

RECURSIVE pop_defs(_, _, _)
pop_defs(m, sel, ops) ==
    IF Settled(m) /\ ops = <<>> THEN m
    ELSE LET op == Head(ops)
             hit == selector(sel, m.nodes[op]) /\ m.nodes[op].is_def
             r == repr(m.nodes, op)
             arr == Get(m.stack, r)
         IN pop_defs(IF hit
                     THEN [m EXCEPT !.stack = Put(m.stack, r, SubSeq(arr, 1, Len(arr) - 1))]
                     ELSE m,
                     sel, Tail(ops))

RECURSIVE rename_rec(_, _, _, _)
RECURSIVE rename_children(_, _, _, _)
rename_children(m, sel, g, Xs) ==
    IF Settled(m) /\ Xs = <<>> THEN m
    ELSE rename_children(rename_rec(m, sel, g, Head(Xs)), sel, g, Tail(Xs))

\* the definitions of block n leave the stacks
pop_block_defs(m, sel, n) == pop_defs(m, sel, stmts_operands(m, m.blocks[n], TRUE))

rename_rec(m, sel, g, n) ==
    pop_block_defs(
        rename_children(
            rename_successors(rename_stmts(m, sel, m.blocks[n]),
                              sel, g, n, successors(g, n)),
            sel, g, domSuccessors(g, n)),
        sel, n)

(***************************************************************************)
(* Phi relaxation.  Each function is given one definition and answers in   *)
(* m.ret whether the definition's entry is to be eliminated.               *)
(***************************************************************************)
lhand_of(m, p) == m.nodes[p].operands[1]
rhand_of(m, p) == m.nodes[p].operands[2]

\* faulty variant of simplify_single_phi: a phi of any number of arguments
\* gives way to its first argument
simplify_single_phi_any(m, def) ==
    LET p == m.nodes[def].parent
        rhand == rhand_of(m, p)
        phi_arg == m.nodes[rhand].operands[1]
    IN IF IsPhi(m.nodes[rhand])
       THEN [replace(pluck(m, phi_arg, FALSE), rhand, phi_arg) EXCEPT !.ret = FALSE]
       ELSE [m EXCEPT !.ret = FALSE]

\* x7 = Phi(x4) --> x7 = x4
simplify_single_phi(m, def) ==
    LET p == m.nodes[def].parent
        rhand == rhand_of(m, p)
        phi_arg == m.nodes[rhand].operands[1]
    IN IF IsPhi(m.nodes[rhand]) /\ Len(m.nodes[rhand].operands) = 1
       THEN [replace(pluck(m, phi_arg, FALSE), rhand, phi_arg) EXCEPT !.ret = FALSE]
       ELSE [m EXCEPT !.ret = FALSE]

\* x5 = Phi(x2, x5) --> x5 = x2
simplify_self_ref_phi(m, def) ==
    LET p == m.nodes[def].parent
        lhand == lhand_of(m, p)
        rhand == rhand_of(m, p)
        ops == m.nodes[rhand].operands
        other == IF equals(m.nodes, ops[1], lhand) THEN ops[2]
                 ELSE IF equals(m.nodes, ops[2], lhand) THEN ops[1]
                 ELSE Null
    IN IF IsPhi(m.nodes[rhand]) /\ Len(ops) = 2 /\ other # Null
       THEN [replace(pluck(m, other, FALSE), rhand, other) EXCEPT !.ret = FALSE]
       ELSE [m EXCEPT !.ret = FALSE]

RECURSIVE fold_phi_operands(_, _, _, _)
\* pushes copies of the operands of phi rhand into target_phi, skipping
\* those target_phi has already
fold_phi_operands(m, rhand, target_phi, i) ==
    IF i > Len(m.nodes[rhand].operands) THEN m
    ELSE LET o == m.nodes[rhand].operands[i]
         IN fold_phi_operands(
              IF ~has(m.nodes, target_phi, o)
              THEN push_operand(clone(m, o, {"idx", "def"}), target_phi, Len(m.nodes) + 1)
              ELSE m,
              rhand, target_phi, i + 1)

\* a phi whose only use is an argument of another phi
propagate_chained_phi(m, def) ==
    LET p == m.nodes[def].parent
        rhand == rhand_of(m, p)
        u == m.nodes[def].uses[1]
        target_phi == m.nodes[u].parent
    IN IF /\ IsPhi(m.nodes[rhand])
          /\ Len(m.nodes[def].uses) = 1
          /\ target_phi # Null
          /\ IsPhi(m.nodes[target_phi])
       THEN [pluck(fold_phi_operands(pluck(m, u, TRUE), rhand, target_phi, 1), p, TRUE)
               EXCEPT !.ret = TRUE]
       ELSE [m EXCEPT !.ret = FALSE]

relax(m, pass, def) ==
    CASE pass = "simplify_single_phi" -> simplify_single_phi(m, def)
      [] pass = "simplify_self_ref_phi" -> simplify_self_ref_phi(m, def)
      [] OTHER -> propagate_chained_phi(m, def)

RECURSIVE iterate_rec(_, _, _, _)
\* the callback has answered in m.ret for the first of the keys
iterate_next(m, pass, keys, eliminate) ==
    iterate_rec(m, pass, Tail(keys),
                IF m.ret THEN eliminate \cup {Head(keys)} ELSE eliminate)

iterate_rec(m, pass, keys, eliminate) ==
    IF keys = <<>> THEN [m EXCEPT !.defs = delete_keys(m.defs, eliminate),
                                  !.ret = (eliminate # {})]
    ELSE iterate_next(relax(m, pass, Get(m.defs, Head(keys))), pass, keys, eliminate)

Keys(tbl) ==
    LET RECURSIVE ks(_)
        ks(i) == IF i > Len(tbl) THEN <<>> ELSE <<tbl[i].key>> \o ks(i + 1)
    IN ks(1)

\* Context.prototype.iterate, applied to one of the relaxation functions
iterate(m, pass) == iterate_rec(m, pass, Keys(m.defs), {})

(***************************************************************************)
(* The optimizer passes: Propagator and Pruner.                            *)
(***************************************************************************)
\* the `noalias` option of the configuration passed to the passes
noalias == conf.noalias

\* arch.is_stack_reg: register y is the stack register if the architecture
\* says so
is_stack_reg(nodes, e) == conf.stack /\ nodes[e].kind = "Reg" /\ nodes[e].name = "y"

RECURSIVE tag_rec(_, _)
tag_rec(nodes, defs) ==
    IF defs = <<>> THEN nodes
    ELSE LET def == Head(defs).v
         IN tag_rec(IF IsDeref(nodes[def]) /\ is_stack_reg(nodes, nodes[def].operands[1])
                    THEN [nodes EXCEPT ![def].is_safe = TRUE]
                    ELSE nodes,
                    Tail(defs))

\* tag_stack_derefs: the definitions of memory at the stack register are
\* safe
tag_stack_derefs(m) == [m EXCEPT !.nodes = tag_rec(m.nodes, m.defs)]

\* Analyzer.prototype.ssa_step_regs, ssa_step_vars and ssa_step_derefs.  The
\* first works on definitions of the stack, frame and flags registers with
\* a subscript other than 0 and on the variables r2 knows, and the analysed
\* function has none; the second is empty
ssa_step(m, wave) == IF wave = 3 THEN tag_stack_derefs(m) ELSE m

\* Propagator.propagate_safe_defs: which definitions are propagated
_select_safe_defs(m, def, val) ==
    /\ m.nodes[def].idx # 0
    /\ ~IsPhi(m.nodes[val])
    /\ Len(m.nodes[def].uses) = 1

RECURSIVE propagate_uses(_, _, _)
\* rewrites every use by a copy of the assigned value
propagate_uses(m, us, val) ==
    IF us = <<>> THEN m
    ELSE propagate_uses(replace(clone(m, val, {"idx", "def"}), Head(us), Len(m.nodes) + 1),
                        Tail(us), val)

RECURSIVE propagator_rec(_, _, _)
propagator_rec(m, keys, done) ==
    IF keys = <<>> THEN [m EXCEPT !.defs = delete_keys(m.defs, done),
                                  !.ret = (done # {})]
    ELSE LET d == Head(keys)
             p == m.nodes[Get(m.defs, d)].parent
             def == lhand_of(m, p)
             val == rhand_of(m, p)
         IN IF _select_safe_defs(m, def, val)
            THEN propagator_rec(pluck(propagate_uses(m, m.nodes[def].uses, val), p, TRUE),
                                Tail(keys), done \cup {d})
            ELSE propagator_rec(m, Tail(keys), done)

\* Propagator.prototype.run, for the safe definitions
Propagator_run(m) == propagator_rec(m, Keys(m.defs), {})

_select_dead_regs(m, def, val) ==
    /\ Len(m.nodes[def].uses) = 0
    /\ IsReg(m.nodes[def]) /\ ~IsVar(m.nodes[def])
    /\ (~IsCall(m.nodes[val]) \/ m.nodes[def].prune)

_is_user(m, expr) ==
    /\ m.nodes[expr].def # Null
    /\ Len(m.nodes[m.nodes[expr].def].uses) > 0

\* faulty variant of the selector: the address of the store is not looked
\* at
_select_dead_derefs_any_address(m, def, val) ==
    /\ Len(m.nodes[def].uses) = 0
    /\ IsDeref(m.nodes[def])
    /\ (IsPhi(m.nodes[val]) \/ noalias \/ m.nodes[def].is_safe)

_select_dead_derefs(m, def, val) ==
    /\ Len(m.nodes[def].uses) = 0
    /\ IsDeref(m.nodes[def])
    /\ (IsPhi(m.nodes[val]) \/ noalias \/ m.nodes[def].is_safe)
    /\ LET memloc == m.nodes[def].operands[1]
       IN \/ ~(\E o \in Range(iter_operands(m.nodes, memloc, FALSE)) : _is_user(m, o))
          \/ m.nodes[def].is_safe

\* the test of _select_dead_results; its effect is extract_call
_select_dead_results(m, def, val) ==
    /\ Len(m.nodes[def].uses) = 0
    /\ IsReg(m.nodes[def])
    /\ IsCall(m.nodes[val])

\* faulty variant of the extraction: the operands of the call stop being
\* users of their definitions
extract_call_detached(m, def, val) ==
    LET p == m.nodes[def].parent
        stmt == m.nodes[p].stmt
    IN push_expr_after(pluck(m, val, TRUE), stmt, val, p)

\* the call is taken out of the assignment and kept as an expression of
\* its own, after the assignment, in the same statement
extract_call(m, def, val) ==
    LET p == m.nodes[def].parent
        stmt == m.nodes[p].stmt
    IN push_expr_after(pluck(m, val, FALSE), stmt, val, p)

_select_def_single_phi(m, def, val) ==
    /\ Len(m.nodes[def].uses) = 1
    /\ LET u == m.nodes[def].uses[1]
           up == m.nodes[u].parent
       IN up # Null /\ IsPhi(m.nodes[up]) /\ equals(m.nodes, up, val)

_select_def_single_phi_circ(m, def, val) ==
    /\ Len(m.nodes[def].uses) = 1
    /\ LET u == m.nodes[def].uses[1]
           up == m.nodes[u].parent
       IN /\ up # Null
          /\ IsPhi(m.nodes[up])
          /\ equals(m.nodes, lhand_of(m, m.nodes[up].parent), val)

RECURSIVE __is_circular_phi(_, _, _)
\* answers [ok, visited]: ok iff every path of phi uses from _val closes a
\* circle; the uses of a definition are tried in order until one fails
__is_circular_phi(m, _val, visited) ==
    IF _val = Null \/ ~IsPhi(m.nodes[_val]) THEN [ok |-> FALSE, visited |-> visited]
    ELSE LET _def == lhand_of(m, m.nodes[_val].parent)
             us == m.nodes[_def].uses
             RECURSIVE every(_, _)
             every(i, vis) ==
                 IF i > Len(us) THEN [ok |-> TRUE, visited |-> vis]
                 ELSE LET r == __is_circular_phi(m, m.nodes[us[i]].parent, vis)
                      IN IF r.ok THEN every(i + 1, r.visited) ELSE r
         IN IF IndexOf(visited, _def) = 0
            THEN every(1, Append(visited, _def))
            ELSE [ok |-> TRUE, visited |-> visited]

_select_circular_phi(m, def, val) == __is_circular_phi(m, val, <<>>).ok

Pruners == <<"eliminate_dead_regs", "eliminate_dead_derefs", "eliminate_dead_results",
             "eliminate_def_single_phi", "eliminate_def_single_phi_circ",
             "eliminate_circular_phi">>

Pruner_selector(m, pass, def, val) ==
    CASE pass = "eliminate_dead_regs" -> _select_dead_regs(m, def, val)
      [] pass = "eliminate_dead_derefs" -> _select_dead_derefs(m, def, val)
      [] pass = "eliminate_dead_results" -> _select_dead_results(m, def, val)
      [] pass = "eliminate_def_single_phi" -> _select_def_single_phi(m, def, val)
      [] pass = "eliminate_def_single_phi_circ" -> _select_def_single_phi_circ(m, def, val)
      [] OTHER -> _select_circular_phi(m, def, val)

RECURSIVE pruner_rec_keys_kept(_, _, _, _)
\* faulty variant of the run: the keys of the pruned definitions stay in
\* ctx.defs
pruner_rec_keys_kept(m, pass, keys, pruned) ==
    IF keys = <<>> THEN [m EXCEPT !.ret = (pruned # {})]
    ELSE LET d == Head(keys)
             p == m.nodes[Get(m.defs, d)].parent
             def == lhand_of(m, p)
             val == rhand_of(m, p)
             m1 == IF pass = "eliminate_dead_results" THEN extract_call(m, def, val) ELSE m
         IN IF Pruner_selector(m, pass, def, val)
            THEN pruner_rec_keys_kept(pluck(m1, p, TRUE), pass, Tail(keys), pruned \cup {d})
            ELSE pruner_rec_keys_kept(m, pass, Tail(keys), pruned)

RECURSIVE pruner_rec(_, _, _, _)
\* the loop of Pruner.prototype.run over the keys of ctx.defs, and its end
pruner_rec(m, pass, keys, pruned) ==
    IF keys = <<>> THEN [m EXCEPT !.defs = delete_keys(m.defs, pruned),
                                  !.ret = (pruned # {})]
    ELSE LET d == Head(keys)
             p == m.nodes[Get(m.defs, d)].parent
             def == lhand_of(m, p)
             val == rhand_of(m, p)
             m1 == IF pass = "eliminate_dead_results" THEN extract_call(m, def, val) ELSE m
         IN IF Pruner_selector(m, pass, def, val)
            THEN pruner_rec(pluck(m1, p, TRUE), pass, Tail(keys), pruned \cup {d})
            ELSE pruner_rec(m, pass, Tail(keys), pruned)

\* Pruner.prototype.run
Pruner_run(m, pass) == pruner_rec(m, pass, Keys(m.defs), {})

(***************************************************************************)
(* Leaving SSA form.                                                       *)
(***************************************************************************)
RECURSIVE clear_idx(_, _)
clear_idx(nodes, ops) ==
    IF ops = <<>> THEN nodes
    ELSE clear_idx(IF nodes[Head(ops)].idx # NoIdx
                   THEN [nodes EXCEPT ![Head(ops)].idx = NoIdx]
                   ELSE nodes,
                   Tail(ops))

\* faulty variant of transform_out: only the expressions of the statements
\* and their direct operands are visited
transform_out_shallow(m) ==
    LET es == Flatten([b \in DOMAIN m.blocks |->
                  Flatten([i \in DOMAIN m.blocks[b] |->
                      m.stmts[m.blocks[b][i]].expressions])])
        ops == Flatten([i \in DOMAIN es |-> <<es[i]>> \o m.nodes[es[i]].operands])
    IN [m EXCEPT !.nodes = clear_idx(m.nodes, ops)]

RECURSIVE clear_stmts(_, _)
\* the statements of the function, one after another
clear_stmts(m, ss) ==
    IF Settled(m) /\ ss = <<>> THEN m
    ELSE clear_stmts(
            [m EXCEPT !.nodes = clear_idx(m.nodes, stmts_operands(m, <<Head(ss)>>, FALSE))],
            Tail(ss))

transform_out(m) == clear_stmts(m, Flatten(m.blocks))

(***************************************************************************)
(* The pipeline of r2dec_main over one function.  The analysed functions   *)
(* use general purpose registers only, so the architecture's own steps     *)
(* between the waves (stack, frame and flags registers) select nothing.    *)
(***************************************************************************)
\* faulty variant of the driver: the memory dereferences before the
\* local variables
Waves_derefs_first == <<"Reg", "Deref", "Var">>

Waves == <<"Reg", "Var", "Deref">>

\* the pass lists of the three Optimizer.run calls
PassList(wave) ==
    IF wave < 3 THEN <<"propagate_safe_defs">>
    ELSE <<"propagate_safe_defs">> \o Pruners

\* the text of the function and of the context: what two runs are compared by
RECURSIVE stmts_text(_, _)
stmts_text(m, ss) ==
    IF ss = <<>> THEN <<>>
    ELSE LET es == m.stmts[Head(ss)].expressions
             RECURSIVE exprs(_)
             exprs(i) == IF i > Len(es) THEN <<>>
                         ELSE <<toString(m.nodes, es[i])>> \o exprs(i + 1)
         IN <<exprs(1)>> \o stmts_text(m, Tail(ss))

RECURSIVE blocks_text(_, _)
blocks_text(m, b) ==
    IF b > Len(m.blocks) THEN <<>>
    ELSE <<stmts_text(m, m.blocks[b])>> \o blocks_text(m, b + 1)

IR(m) == [blocks |-> blocks_text(m, 1),
          uninit |-> stmts_text(m, m.uninit),
          defs |-> Keys(m.defs)]

G == Shapes[shape]
At(step) == pc.step = step
Goto(step) == pc' = [pc EXCEPT !.step = step]

\* the graphs in which no block has two edges to the same block
Simple == {s \in DOMAIN Shapes :
             \A b \in DOMAIN Shapes[s].jump :
                 Shapes[s].jump[b] = 0 \/ Shapes[s].jump[b] # Shapes[s].fail[b]}

\* opt.noalias is off unless the user turns it on; the stack register is
\* not among the registers of the analysed functions
\* the blocks of a graph that two or more edges lead to
Joins(g) == {b \in Blocks(g) : Len(SelectSeq(cfg(g), LAMBDA e : e[2] = b)) > 1}

\* the simple graphs of at most two joins
Small == {s \in Simple : Cardinality(Joins(Shapes[s])) <= 2}

DefaultConf == [noalias |-> FALSE, stack |-> FALSE]

Init ==
    /\ shape \in Small
    /\ bodies \in [1..Len(FreeBlocks[shape]) -> 1..NumBodies]
    /\ ssa = Function(shape, bodies)
    /\ pc = [wave |-> 1, step |-> "initialize", pass |-> 0, changed |-> FALSE]
    /\ snap = <<>>
    /\ sx = <<>>
    /\ conf = DefaultConf
    /\ live = <<>>

Initialize ==
    /\ At("initialize")
    /\ ssa' = initialize(ssa, Waves[pc.wave])
    /\ Goto("insert_phi_exprs")
    /\ UNCHANGED <<shape, bodies, snap, sx, conf, live>>

InsertPhiExprs ==
    /\ At("insert_phi_exprs")
    /\ ssa' = insert_phi_exprs(ssa, Waves[pc.wave], G)
    /\ Goto("rename_rec")
    /\ UNCHANGED <<shape, bodies, snap, sx, conf, live>>

RenameRec ==
    /\ At("rename_rec")
    /\ ssa' = rename_rec(ssa, Waves[pc.wave], G, 1)
    /\ Goto("simplify_single_phi")
    /\ UNCHANGED <<shape, bodies, snap, sx, conf, live>>

SimplifySinglePhi ==
    /\ At("simplify_single_phi")
    /\ ssa' = iterate(ssa, "simplify_single_phi")
    /\ Goto("simplify_self_ref_phi")
    /\ UNCHANGED <<shape, bodies, snap, sx, conf, live>>

SimplifySelfRefPhi ==
    /\ At("simplify_self_ref_phi")
    /\ ssa' = iterate(ssa, "simplify_self_ref_phi")
    /\ Goto("propagate_chained_phi")
    /\ UNCHANGED <<shape, bodies, snap, sx, conf, live>>

PropagateChainedPhi ==
    /\ At("propagate_chained_phi")
    /\ ssa' = iterate(ssa, "propagate_chained_phi")
    /\ Goto("ssa_step")
    /\ UNCHANGED <<shape, bodies, snap, sx, conf, live>>

\* analyzer.ssa_step_regs, ssa_step_vars, ssa_step_derefs
SsaStep ==
    /\ At("ssa_step")
    /\ ssa' = ssa_step(ssa, pc.wave)
    /\ pc' = [pc EXCEPT !.step = "optimize", !.pass = 1]
    /\ UNCHANGED <<shape, bodies, snap, sx, conf, live>>

\* Optimizer.run: a pass is run again until it reports no change, then the
\* next pass of the list is run; after the list, the pipeline goes on
OptimizerNext(changed) ==
    LET last == pc.pass = Len(PassList(pc.wave))
    IN IF changed THEN pc' = [pc EXCEPT !.changed = TRUE]
       ELSE IF ~last THEN pc' = [pc EXCEPT !.pass = @ + 1]
       ELSE IF pc.wave < 3
       THEN pc' = [pc EXCEPT !.wave = @ + 1, !.step = "initialize", !.pass = 0]
       ELSE IF At("optimize")
       THEN pc' = [pc EXCEPT !.step = "optimize_again", !.pass = 1, !.changed = FALSE]
       ELSE pc' = [pc EXCEPT !.step = "transform_out", !.pass = 0]

Optimizing == At("optimize") \/ At("optimize_again")

\* the first run of the last pass list is over: remember its outcome
Remember ==
    IF At("optimize") /\ pc'.step = "optimize_again" THEN snap' = IR(ssa')
    ELSE UNCHANGED snap

PropagatorRun ==
    /\ Optimizing
    /\ PassList(pc.wave)[pc.pass] = "propagate_safe_defs"
    /\ ssa' = Propagator_run(ssa)
    /\ OptimizerNext(ssa'.ret)
    /\ Remember
    /\ UNCHANGED <<shape, bodies, sx, conf, live>>

PrunerRun ==
    /\ Optimizing
    /\ PassList(pc.wave)[pc.pass] # "propagate_safe_defs"
    /\ ssa' = Pruner_run(ssa, PassList(pc.wave)[pc.pass])
    /\ OptimizerNext(ssa'.ret)
    /\ Remember
    /\ UNCHANGED <<shape, bodies, sx, conf, live>>

TransformOut ==
    /\ At("transform_out")
    /\ ssa' = transform_out(ssa)
    /\ Goto("done")
    /\ UNCHANGED <<shape, bodies, snap, sx, conf, live>>

Next ==
    \/ Initialize
    \/ InsertPhiExprs
    \/ RenameRec
    \/ SimplifySinglePhi
    \/ SimplifySelfRefPhi
    \/ PropagateChainedPhi
    \/ SsaStep
    \/ PropagatorRun
    \/ PrunerRun
    \/ TransformOut

Spec == Init /\ [][Next]_vars

\* the bodies that assign nothing to register y
KeepStack ==
    {b \in 1..NumBodies :
        \A i \in DOMAIN Bodies[b] :
            ~(Bodies[b][i].ops[1].k = "Reg" /\ Bodies[b][i].ops[1].n = "y")}

\* the bodies that store to memory
Stores ==
    {b \in 1..NumBodies :
        \E i \in DOMAIN Bodies[b] : Bodies[b][i].ops[1].k = "Deref"}

\* the pipeline under every configuration, over the functions that store
\* to memory and leave register y as it is on entry: y may be the stack
\* register
InitAlias ==
    /\ shape \in Small
    /\ bodies \in [1..Len(FreeBlocks[shape]) -> KeepStack]
    /\ \E i \in DOMAIN bodies : bodies[i] \in Stores
    /\ ssa = Function(shape, bodies)
    /\ pc = [wave |-> 1, step |-> "initialize", pass |-> 0, changed |-> FALSE]
    /\ snap = <<>>
    /\ sx = <<>>
    /\ conf \in [noalias : BOOLEAN, stack : BOOLEAN]
    /\ live = <<>>

SpecAlias == InitAlias /\ [][Next]_vars

\* the pipeline over the functions in which a block has its two edges to
\* the same block
InitTwin ==
    /\ shape \in DOMAIN Shapes \ Simple
    /\ bodies \in [1..Len(FreeBlocks[shape]) -> 1..NumBodies]
    /\ ssa = Function(shape, bodies)
    /\ pc = [wave |-> 1, step |-> "initialize", pass |-> 0, changed |-> FALSE]
    /\ snap = <<>>
    /\ sx = <<>>
    /\ conf = DefaultConf
    /\ live = <<>>

SpecTwin == InitTwin /\ [][Next]_vars

\* the bodies of at most one statement
Short == {i \in 1..NumBodies : Len(Bodies[i]) <= 1}

\* the pipeline over the functions of three joins, with short bodies
InitLadder ==
    /\ shape \in Simple \ Small
    /\ bodies \in [1..Len(FreeBlocks[shape]) -> Short]
    /\ ssa = Function(shape, bodies)
    /\ pc = [wave |-> 1, step |-> "initialize", pass |-> 0, changed |-> FALSE]
    /\ snap = <<>>
    /\ sx = <<>>
    /\ conf = DefaultConf
    /\ live = <<>>

SpecLadder == InitLadder /\ [][Next]_vars

(***************************************************************************)
(* The analyzer's ssa_done, called between the renaming of the memory      *)
(* dereferences and the last Optimizer.run.  A throw of one of its steps   *)
(* leaves the pipeline for the handler of r2dec_main: the step is          *)
(* "crashed" and nothing runs after it.                                    *)
(***************************************************************************)
\* Function.exit_blocks: the blocks with no way out, in block order
exit_blocks(g) == SortedSeq({b \in Blocks(g) : successors(g, b) = <<>>})

\* Context.prototype.get_local_defs, for one container: the definitions of
\* ctx.defs whose statement is in it.  A container that holds no definition
\* has no entry in the object get_local_defs returns
get_local_defs(m, c) ==
    LET RECURSIVE sel(_)
        sel(i) ==
            IF i > Len(m.defs) THEN <<>>
            ELSE (IF m.stmts[m.nodes[m.nodes[m.defs[i].v].parent].stmt].parent = c
                  THEN <<m.defs[i].v>> ELSE <<>>) \o sel(i + 1)
    IN sel(1)

RECURSIVE _get_origin(_, _)
\* trace a definition back through copies; Null is `undefined`
_get_origin(m, def) ==
    IF def = Null \/ m.nodes[def].idx = 0 THEN def
    ELSE LET rhand == rhand_of(m, m.nodes[def].parent)
         IN IF IsReg(m.nodes[rhand]) \/ IsDeref(m.nodes[rhand])
            THEN _get_origin(m, m.nodes[rhand].def)
            ELSE Null

\* one more origin for the location of `def`
add_candidate(m, cands, def, origin) ==
    IF m.nodes[def].idx # 0 /\ origin # Null /\ equals_no_idx(m.nodes, def, origin)
    THEN IF Has(cands, repr(m.nodes, def))
         THEN [cands EXCEPT ![KeyIndex(cands, repr(m.nodes, def))].v.origins =
                                Append(@, origin)]
         ELSE Append(cands, [key |-> repr(m.nodes, def),
                             v |-> [def |-> def, origins |-> <<origin>>]])
    ELSE cands

RECURSIVE candidates_rec(_, _, _)
candidates_rec(m, defs, cands) ==
    IF defs = <<>> THEN cands
    ELSE candidates_rec(m, Tail(defs),
                        add_candidate(m, cands, Head(defs), _get_origin(m, Head(defs))))

RECURSIVE identical_origins(_, _)
\* the candidates whose origins are all the first of them
identical_origins(m, cands) ==
    IF cands = <<>> THEN <<>>
    ELSE LET c == Head(cands).v
         IN (IF \A i \in DOMAIN c.origins : equals(m.nodes, c.origins[i], c.origins[1])
             THEN << <<c.def, c.origins[1]>> >> ELSE <<>>)
            \o identical_origins(m, Tail(cands))

\* local_defs[block.container] is undefined for an exit block that holds no
\* definition, and its forEach is a TypeError
preserved_locations_throws(m, g) ==
    \E b \in Range(exit_blocks(g)) : get_local_defs(m, b) = <<>>

\* SSA.prototype.preserved_locations; the pairs are m.preserved
preserved_locations(m, g) ==
    [m EXCEPT !.preserved =
        identical_origins(m,
            candidates_rec(m, Flatten([i \in DOMAIN exit_blocks(g) |->
                                          get_local_defs(m, exit_blocks(g)[i])]),
                           <<>>))]

RECURSIVE mark_restored(_, _, _)
\* the loop of remove_preserved_loc over one pair
mark_restored(nodes, restored, saved) ==
    IF restored = saved THEN nodes
    ELSE mark_restored([nodes EXCEPT ![restored].weak = TRUE,
                                     ![restored].prune = TRUE],
                       nodes[nodes[nodes[restored].parent].operands[2]].def,
                       saved)

RECURSIVE mark_preserved(_, _)
mark_preserved(nodes, pairs) ==
    IF pairs = <<>> THEN nodes
    ELSE mark_preserved(mark_restored(nodes, Head(pairs)[1], Head(pairs)[2]),
                        Tail(pairs))

marked(m) == [m EXCEPT !.nodes = mark_preserved(m.nodes, m.preserved)]

remove_preserved_loc(m, g) == marked(preserved_locations(m, g))

\* the calls assign_fcall_args gives arguments to: an expression of a
\* statement, or the value it is assigned to, that is a call and no
\* intrinsic
fcalls(m) ==
    LET peel(e) == IF IsAssign(m.nodes[e]) THEN rhand_of(m, e) ELSE e
        exprs == UNION {Range(m.stmts[s].expressions) :
                           s \in {t \in DOMAIN m.stmts :
                                     m.stmts[t].parent \in DOMAIN m.blocks}}
    IN {c \in {peel(e) : e \in exprs} : m.nodes[c].kind = "Call"}

\* cconvs[ccname] is undefined: `known` tells whether the calling
\* convention that r2 names for the callee has a handler
assign_fcall_args_throws(m, known) == fcalls(m) # {} /\ ~known

\* the handler is asked for the arguments of every call; the ones of the
\* analysed function take none
assign_fcall_args(m) == m

\* arch.RESULT_REG
RESULT_REG == "x"

\* the returned expressions of the exit blocks' terminators
returns(m, g) ==
    LET last(b) == m.blocks[b][Len(m.blocks[b])]
    IN [i \in DOMAIN exit_blocks(g) |-> m.stmts[last(exit_blocks(g)[i])].expressions[1]]

\* the function returns the result register as it was on entry, or a phi
\* of it: it returns no value
return_void(m, retval) ==
    /\ repr(m.nodes, retval) = RESULT_REG
    /\ \/ toString(m.nodes, retval) = RESULT_REG \o "_0"
       \/ LET pval == rhand_of(m, m.nodes[m.nodes[retval].def].parent)
          IN /\ IsPhi(m.nodes[pval])
             /\ \E i \in DOMAIN m.nodes[pval].operands :
                    toString(m.nodes, m.nodes[pval].operands[i]) = RESULT_REG \o "_0"

RECURSIVE pluck_retvals(_, _)
\* ret.retval.pluck(true): the return statement stays, with nothing returned
pluck_retvals(m, rs) ==
    IF rs = <<>> THEN m
    ELSE pluck_retvals(
            [m EXCEPT !.nodes = [detach_uses(@, Head(rs)) EXCEPT ![Head(rs)].stmt = Null],
                      !.stmts[m.nodes[Head(rs)].stmt].expressions = <<>>],
            Tail(rs))

adjust_returns(m, g) ==
    IF \E i \in DOMAIN returns(m, g) : return_void(m, returns(m, g)[i])
    THEN pluck_retvals(m, returns(m, g))
    ELSE m

\* Analyzer.prototype.ssa_done, when nothing throws; transform_flags
\* rewrites the expressions over flags, and the analysed function has none
ssa_done(m, g) == adjust_returns(assign_fcall_args(remove_preserved_loc(m, g)), g)

\* Optimizer.run of the register wave and of the variable wave
PropagatorRunOfWave == pc.wave < 3 /\ PropagatorRun

SsaDone ==
    /\ At("optimize")
    /\ pc.wave = 3
    /\ \E known \in BOOLEAN :
          IF preserved_locations_throws(ssa, G)
          THEN ssa' = ssa /\ Goto("crashed")
          ELSE IF assign_fcall_args_throws(ssa, known)
          THEN ssa' = remove_preserved_loc(ssa, G) /\ Goto("crashed")
          ELSE ssa' = ssa_done(ssa, G) /\ Goto("analyzed")
    /\ UNCHANGED <<shape, bodies, snap, sx, conf, live>>

NextDone ==
    \/ Initialize
    \/ InsertPhiExprs
    \/ RenameRec
    \/ SimplifySinglePhi
    \/ SimplifySelfRefPhi
    \/ PropagateChainedPhi
    \/ SsaStep
    \/ PropagatorRunOfWave
    \/ SsaDone

SpecDone == Init /\ [][NextDone]_vars

(***************************************************************************)
(* Context.prototype.get_live_ranges: the definitions that reach a block   *)
(* and, for each, its earliest use in the block.                           *)
(***************************************************************************)
RECURSIVE parent_stmt(_, _)
\* Expr.prototype.parent_stmt: the statement an expression is part of
parent_stmt(nodes, e) ==
    IF nodes[e].parent = Null THEN nodes[e].stmt
    ELSE parent_stmt(nodes, nodes[e].parent)

\* the address of the statement an expression is part of
address_of(m, e) == m.stmts[parent_stmt(m.nodes, e)].address

\* new LiveRange(def, use); use is Null while the definition is alive
LiveRange(def, use) == [def |-> def, use |-> use]

is_killed(rng) == rng.use # Null

RECURSIVE _parent_def(_, _)
\* the definition that the enclosing assignment, from p upwards, assigns to
_parent_def(nodes, p) ==
    IF p = Null THEN Null
    ELSE IF IsAssign(nodes[p]) THEN nodes[p].operands[1]
    ELSE _parent_def(nodes, nodes[p].parent)

is_weak_def(nodes, def) == def # Null /\ IsReg(nodes[def]) /\ nodes[def].weak

_is_weak_use(nodes, expr) == is_weak_def(nodes, _parent_def(nodes, nodes[expr].parent))

RECURSIVE insert_by_address(_, _, _)
\* puts a definition after the sorted ones that are not at a later address
insert_by_address(m, sorted, d) ==
    IF sorted = <<>> THEN <<d>>
    ELSE IF address_of(m, Head(sorted)) > address_of(m, d) THEN <<d>> \o sorted
    ELSE <<Head(sorted)>> \o insert_by_address(m, Tail(sorted), d)

RECURSIVE sort_by_address(_, _, _)
\* locals.sort by the address of the definitions' statements
sort_by_address(m, ds, sorted) ==
    IF ds = <<>> THEN sorted
    ELSE sort_by_address(m, Tail(ds), insert_by_address(m, sorted, Head(ds)))

\* the uses of a definition in the container, the weak ones left out when
\* ignore_weak is set
killing(m, c, ignore_weak, def) ==
    SelectSeq(m.nodes[def].uses,
              LAMBDA use : /\ m.stmts[parent_stmt(m.nodes, use)].parent = c
                           /\ ~(ignore_weak /\ _is_weak_use(m.nodes, use)))

RECURSIVE earliest(_, _, _)
\* killing.reduce: the first of the uses at the lowest address
earliest(m, uses, a) ==
    IF uses = <<>> THEN a
    ELSE earliest(m, Tail(uses),
                  IF address_of(m, Head(uses)) < address_of(m, a) THEN Head(uses) ELSE a)

range_of(m, uses, def) ==
    LiveRange(def, IF uses = <<>> THEN Null ELSE earliest(m, uses, uses[1]))

\* live.map of _get_block_live_ranges
live_map(m, c, ignore_weak, ds) ==
    [i \in DOMAIN ds |-> range_of(m, killing(m, c, ignore_weak, ds[i]), ds[i])]

_get_block_live_ranges(m, block, live_at_entry, ignore_weak) ==
    live_map(m, block, ignore_weak,
             live_at_entry \o sort_by_address(m, get_local_defs(m, block), <<>>))

\* _concat_no_dups, over the concatenated arrays: first occurrences only
_concat_no_dups(arr) ==
    LET RECURSIVE unique(_)
        unique(i) == IF i > Len(arr) THEN <<>>
                     ELSE (IF IndexOf(arr, arr[i]) = i THEN <<arr[i]>> ELSE <<>>)
                          \o unique(i + 1)
    IN unique(1)

\* the definitions of the ranges that no use has killed
live_only(rngs) ==
    LET alive == SelectSeq(rngs, LAMBDA rng : ~is_killed(rng))
    IN [i \in DOMAIN alive |-> alive[i].def]

\* the left-hand sides of the placeholders of the uninit container
uninit_defs(m) ==
    [i \in DOMAIN m.uninit |-> lhand_of(m, m.stmts[m.uninit[i]].expressions[1])]

\* the end of _ascend_cfg: the ranges of the block are returned (ret); what
\* was alive at its entry and what it returned are noted per block
noted(w, curr, live_at_entry, rngs) ==
    [w EXCEPT !.entry = Put(@, curr, live_at_entry),
              !.ranges = Put(@, curr, rngs),
              !.ret = rngs]

block_ranges(m, curr, live_at_entry, ignore_weak, w) ==
    noted(w, curr, live_at_entry,
          _get_block_live_ranges(m, curr, live_at_entry, ignore_weak))

RECURSIVE _ascend_cfg(_, _, _, _, _)
RECURSIVE ascend_preds(_, _, _, _, _, _)
\* one predecessor walked: its ranges are w.ret
ascend_next(m, g, preds, ignore_weak, lives, w) ==
    ascend_preds(m, g, preds, ignore_weak, lives \o live_only(w.ret), w)

\* all predecessors walked: the arrays gathered are w.ret
ascend_done(m, curr, ignore_weak, w) ==
    block_ranges(m, curr, _concat_no_dups(w.ret), ignore_weak, w)

\* the map over cfg.predecessors(curr): `lives` gathers, array after array,
\* the definitions alive at the exit of the predecessors walked so far
ascend_preds(m, g, preds, ignore_weak, lives, w) ==
    IF preds = <<>> THEN [w EXCEPT !.ret = lives]
    ELSE ascend_next(m, g, Tail(preds), ignore_weak, lives,
                     _ascend_cfg(m, g, Head(preds), ignore_weak, w))

\* the walk `w` is the array visited_blocks and the value returned last
_ascend_cfg(m, g, curr, ignore_weak, w) ==
    IF curr \in Range(w.visited) THEN [w EXCEPT !.ret = <<>>]
    ELSE IF curr = 1
    THEN block_ranges(m, curr, uninit_defs(m), ignore_weak,
                      [w EXCEPT !.visited = Append(@, curr)])
    ELSE ascend_done(m, curr, ignore_weak,
                     ascend_preds(m, g, predecessors(g, curr), ignore_weak, <<>>,
                                  [w EXCEPT !.visited = Append(@, curr)]))

get_live_ranges(m, g, block, ignore_weak) ==
    _ascend_cfg(m, g, block, ignore_weak,
                [visited |-> <<>>, entry |-> <<>>, ranges |-> <<>>, ret |-> <<>>])

\* a client asks for the live ranges of a block of the function in SSA form
GetLiveRanges ==
    /\ At("optimize")
    /\ pc.wave = 1
    /\ \E block \in Blocks(G), ignore_weak \in BOOLEAN :
          live' = [block |-> block, ignore_weak |-> ignore_weak,
                   walk |-> get_live_ranges(ssa, G, block, ignore_weak)]
    /\ Goto("queried")
    /\ UNCHANGED <<shape, bodies, ssa, snap, sx, conf>>

NextLive ==
    \/ Initialize
    \/ InsertPhiExprs
    \/ RenameRec
    \/ SimplifySinglePhi
    \/ SimplifySelfRefPhi
    \/ PropagateChainedPhi
    \/ SsaStep
    \/ GetLiveRanges

SpecLive == Init /\ [][NextLive]_vars

(***************************************************************************)
(* The expression simplifier.  It reads an expression's class, value, size *)
(* and operands only, so an expression is its tree here; clone() gives a   *)
(* structurally equal tree and replace() puts the reduced tree in place.   *)
(* A Long is scaled down to LongBits bits, two's complement.               *)
(***************************************************************************)
LongMod == 2 ^ LongBits
\* the width of the integers of bitwise operators on numbers
IntBits == LongBits \div 2
MinLong == 0 - 2 ^ (LongBits - 1)
MaxLong == 2 ^ (LongBits - 1) - 1

\* the Long of the low LongBits bits of v
wrap(v) == ((v - MinLong) % LongMod) + MinLong

RECURSIVE bits_op(_, _, _, _)
bits_op(op, a, b, n) ==
    IF n = 0 THEN 0
    ELSE LET x == a % 2
             y == b % 2
             bit == IF op = "and" THEN x * y
                    ELSE IF op = "or" THEN (IF x + y > 0 THEN 1 ELSE 0)
                    ELSE (x + y) % 2
         IN bit + 2 * bits_op(op, a \div 2, b \div 2, n - 1)

Long_bits(op, a, b) == wrap(bits_op(op, a % LongMod, b % LongMod, LongBits))
Long_neg(a) == wrap(0 - a)
Long_not(a) == wrap(0 - a - 1)
Long_abs(a) == IF a < 0 THEN 0 - a ELSE a
Long_shl(a, n) == wrap(a * 2 ^ (n % LongBits))
Long_shr(a, n) == a \div 2 ^ (n % LongBits)
\* division truncates towards zero
Long_div(a, b) ==
    LET q == Long_abs(a) \div Long_abs(b)
    IN wrap(IF (a < 0) = (b < 0) THEN q ELSE 0 - q)
Long_mod(a, b) == wrap(a - b * Long_div(a, b))

Expr_leaf(kind, name, value, size) ==
    [kind |-> kind, name |-> name, value |-> value, size |-> size,
     operands |-> <<>>]
Expr_Val(value, size) == Expr_leaf("Val", "", value, size)
Expr_Reg(name, size) == Expr_leaf("Reg", name, 0, size)
\* an operator's size is the size of its first operand
Expr_op(kind, operands) ==
    [kind |-> kind, name |-> "", value |-> 0, size |-> operands[1].size,
     operands |-> operands]
Expr_U(kind, a) == Expr_op(kind, <<a>>)
Expr_B(kind, a, b) == Expr_op(kind, <<a, b>>)
Expr_T(kind, a, b, c) == Expr_op(kind, <<a, b, c>>)

\* what a rule that does not fire returns
null == Expr_leaf("null", "", 0, 0)

UExpr == {"Neg", "Not", "BoolNot", "AddrOf", "Deref"}
BExpr == {"Add", "Sub", "Mul", "Div", "Mod", "And", "Or", "Xor", "Shl", "Shr",
          "BoolAnd", "BoolOr", "EQ", "NE", "LT", "LE", "GT", "GE"}
TExpr == {"TCond"}

__rel_names == <<"", "EQ", "LT", "LE", "GT", "GE", "NE", "">>

__rel_exprs(rank, x, y) ==
    IF rank = 0 THEN Expr_Val(0, 1)
    ELSE IF rank = 7 THEN Expr_Val(1, 1)
    ELSE Expr_B(__rel_names[rank + 1], x, y)

\* -1 when expr is no relation
__get_rel_rank(expr) ==
    IF expr.kind = "" THEN 0 - 1 ELSE IndexOf(__rel_names, expr.kind) - 1

\* faulty variant of __get_neg_rank: the mask is the length of the table
\* instead of its last index
__get_neg_rank_by_length(rank) == bits_op("xor", rank, 8, 3)

__get_neg_rank(rank) == bits_op("xor", rank, 7, 3)

__is_compare_expr(expr) == __get_rel_rank(expr) # 0 - 1

_ctx_fold_assoc(bexpr) ==
    LET assoc_ops == {"Add", "Mul", "And", "Or", "Xor"}
        olhand == bexpr.operands[1]
        orhand == bexpr.operands[2]
    IN IF /\ bexpr.kind \in assoc_ops
          /\ olhand.kind \in assoc_ops
          /\ bexpr.kind = olhand.kind
          /\ orhand.kind = "Val"
          /\ olhand.operands[2].kind = "Val"
       THEN Expr_B(olhand.kind, olhand.operands[1],
                   Expr_B(olhand.kind, olhand.operands[2], orhand))
       ELSE null

_ctx_fold_arith(bexpr) ==
    LET arith_ops == {"Add", "Sub"}
        olhand == bexpr.operands[1]
        orhand == bexpr.operands[2]
    IN IF /\ bexpr.kind \in arith_ops
          /\ olhand.kind \in arith_ops
          /\ orhand.kind = "Val"
          /\ olhand.operands[2].kind = "Val"
       THEN LET op == IF bexpr.kind = olhand.kind THEN "Add" ELSE "Sub"
            IN Expr_B(olhand.kind, olhand.operands[1],
                      Expr_B(op, olhand.operands[2], orhand))
       ELSE null

\* `1 << n` on numbers: the count is taken modulo the width of an integer,
\* which is half the width of a Long, and the outcome is a signed integer
Int_shl1(n) ==
    IF n % IntBits = IntBits - 1 THEN 0 - 2 ^ (IntBits - 1) ELSE 2 ^ (n % IntBits)

\* val.value.and(msb): the number msb becomes a Long, sign extended
_has_msb_set(val) == Long_bits("and", val.value, Int_shl1(val.size - 1)) # 0

_sign_safe(opname, val) == opname # "Shr" \/ ~_has_msb_set(val)

operations(opname, a, b) ==
    CASE opname = "Add" -> wrap(a + b)
      [] opname = "Sub" -> wrap(a - b)
      [] opname = "Mul" -> wrap(a * b)
      [] opname = "Div" -> Long_div(a, b)
      [] opname = "Mod" -> Long_mod(a, b)
      [] opname = "And" -> Long_bits("and", a, b)
      [] opname = "Or" -> Long_bits("or", a, b)
      [] opname = "Xor" -> Long_bits("xor", a, b)
      [] opname = "Shl" -> Long_shl(a, b)
      [] opname = "Shr" -> Long_shr(a, b)

_constant_folding(bexpr) ==
    LET opname == bexpr.kind
        lhand == bexpr.operands[1]
        rhand == bexpr.operands[2]
    IN IF /\ opname \in {"Add", "Sub", "Mul", "Div", "Mod", "And", "Or",
                         "Xor", "Shl", "Shr"}
          /\ lhand.kind = "Val" /\ rhand.kind = "Val"
          /\ _sign_safe(opname, lhand)
       THEN Expr_Val(operations(opname, lhand.value, rhand.value), lhand.size)
       ELSE null

_correct_arith(bexpr) ==
    LET lhand == bexpr.operands[1]
        rhand == bexpr.operands[2]
        __is_additive_id(expr) == expr = Expr_Val(0, expr.size)
        __is_multiplicative_id(expr) == expr = Expr_Val(1, expr.size)
    IN IF bexpr.kind \in {"Add", "Sub"}
       THEN IF __is_additive_id(rhand) THEN lhand
            ELSE IF bexpr.kind = "Add" /\ __is_additive_id(lhand) THEN rhand
            ELSE null
       ELSE IF bexpr.kind \in {"Mul", "Div"}
       THEN IF __is_multiplicative_id(rhand) THEN lhand
            ELSE IF bexpr.kind = "Mul" /\ __is_multiplicative_id(lhand)
            THEN rhand
            ELSE null
       ELSE null

_negate(uexpr) ==
    LET op == uexpr.operands[1]
    IN IF uexpr.kind # "BoolNot" THEN null
       ELSE IF op.kind \in BExpr
       THEN LET inner_lhand == op.operands[1]
                inner_rhand == op.operands[2]
            IN IF op.kind = "BoolAnd"
               THEN Expr_B("BoolOr", Expr_U("BoolNot", inner_lhand),
                           Expr_U("BoolNot", inner_rhand))
               ELSE IF op.kind = "BoolOr"
               THEN Expr_B("BoolAnd", Expr_U("BoolNot", inner_lhand),
                           Expr_U("BoolNot", inner_rhand))
               ELSE IF op.kind = "Add"
               THEN Expr_B("EQ", inner_lhand, Expr_U("Neg", inner_rhand))
               ELSE IF op.kind = "Sub"
               THEN Expr_B("EQ", inner_lhand, inner_rhand)
               ELSE null
       ELSE IF op.kind \in UExpr
       THEN IF op.kind = "BoolNot" THEN op.operands[1] ELSE null
       ELSE IF op.kind = "Val"
       THEN IF op.value = 0 THEN Expr_Val(1, 1) ELSE Expr_Val(0, 1)
       ELSE null

_correct_sign(bexpr) ==
    LET lhand == bexpr.operands[1]
        rhand == bexpr.operands[2]
        isNegativeValue(e) == e.kind = "Val" /\ e.value < 0
        negated == [rhand EXCEPT !.value = Long_neg(rhand.value)]
    IN IF bexpr.kind = "Add" /\ isNegativeValue(rhand)
       THEN Expr_B("Sub", lhand, negated)
       ELSE IF bexpr.kind = "Sub" /\ isNegativeValue(rhand)
       THEN Expr_B("Add", lhand, negated)
       ELSE null

_correct_ref(uexpr) ==
    LET op == uexpr.operands[1]
    IN IF uexpr.kind = "AddrOf" /\ op.kind = "Deref" THEN op.operands[1]
       ELSE IF uexpr.kind = "Deref" /\ op.kind = "AddrOf" THEN op.operands[1]
       ELSE null

_correct_bitwise(bexpr) ==
    LET lhand == bexpr.operands[1]
        rhand == bexpr.operands[2]
        ffmask == wrap(Long_shl(1, lhand.size) - 1)
        ZERO == Expr_Val(0, lhand.size)
        FF == Expr_Val(ffmask, lhand.size)
    IN CASE bexpr.kind = "Xor" ->
              IF lhand = ZERO THEN rhand
              ELSE IF rhand = ZERO THEN lhand
              ELSE IF rhand = lhand THEN ZERO
              ELSE IF rhand = FF THEN Expr_U("Not", lhand)
              ELSE null
         [] bexpr.kind = "Or" ->
              IF lhand = ZERO THEN rhand
              ELSE IF rhand = ZERO THEN lhand
              ELSE IF rhand = lhand THEN lhand
              ELSE IF rhand = FF THEN FF
              ELSE null
         [] bexpr.kind = "And" ->
              IF lhand = ZERO THEN ZERO
              ELSE IF rhand = ZERO THEN ZERO
              ELSE IF rhand = lhand THEN rhand
              ELSE IF rhand = FF THEN lhand
              ELSE null
         [] bexpr.kind = "Shr" ->
              IF lhand = ZERO THEN ZERO
              ELSE IF rhand = ZERO THEN lhand
              ELSE null
         [] bexpr.kind = "Shl" ->
              IF lhand = ZERO THEN ZERO
              ELSE IF rhand = ZERO THEN lhand
              ELSE IF /\ lhand.kind = "Shr" /\ rhand.kind = "Val"
                      /\ lhand.operands[2].kind = "Val"
                      /\ lhand.operands[2] = rhand
              THEN LET mask ==
                         Expr_Val(Long_not(wrap(Long_shl(1, rhand.value) - 1)),
                                  rhand.size)
                   IN Expr_B("And", lhand.operands[1], mask)
              ELSE null
         [] OTHER -> null

_equality(bexpr) ==
    LET lhand == bexpr.operands[1]
        rhand == bexpr.operands[2]
    IN IF ~__is_compare_expr(bexpr) THEN null
       ELSE IF lhand.kind \in BExpr
       THEN LET x == lhand.operands[1]
                y == lhand.operands[2]
            IN IF /\ y.kind = "Val" /\ rhand.kind = "Val"
                  /\ lhand.kind \in {"Add", "Sub"}
               THEN IF lhand.kind = "Add"
                    THEN Expr_B(bexpr.kind, x, Expr_B("Sub", rhand, y))
                    ELSE Expr_B(bexpr.kind, x, Expr_B("Add", rhand, y))
               ELSE IF rhand = Expr_Val(0, rhand.size)
               THEN IF lhand.kind = "Sub" THEN Expr_B(bexpr.kind, x, y)
                    ELSE IF lhand.kind = "Add"
                    THEN Expr_B(bexpr.kind, x, Expr_U("Neg", y))
                    ELSE null
               ELSE null
       ELSE IF lhand.kind = "Val" /\ rhand.kind = "Val"
       THEN LET are_equal == lhand = rhand
            IN IF bexpr.kind = "EQ"
               THEN (IF are_equal THEN Expr_Val(1, 1) ELSE Expr_Val(0, 1))
               ELSE IF bexpr.kind = "NE"
               THEN (IF are_equal THEN Expr_Val(0, 1) ELSE null)
               ELSE null
       ELSE null

_converged_cond(expr) ==
    LET same(lcmp, rcmp) ==
            /\ lcmp.operands[1] = rcmp.operands[1]
            /\ lcmp.operands[2] = rcmp.operands[2]
        __handle_not(cmp) ==
            __rel_exprs(bits_op("xor", __get_rel_rank(cmp), 7, 3),
                        cmp.operands[1], cmp.operands[2])
        __handle_or(lcmp, rcmp) ==
            IF same(lcmp, rcmp)
            THEN __rel_exprs(bits_op("or", __get_rel_rank(lcmp),
                                     __get_rel_rank(rcmp), 3),
                             lcmp.operands[1], lcmp.operands[2])
            ELSE null
        __handle_and(lcmp, rcmp) ==
            IF same(lcmp, rcmp)
            THEN __rel_exprs(bits_op("and", __get_rel_rank(lcmp),
                                     __get_rel_rank(rcmp), 3),
                             lcmp.operands[1], lcmp.operands[2])
            ELSE null
        __handle_eq(lcmp, rcmp) ==
            IF same(lcmp, rcmp)
            THEN __rel_exprs(__get_neg_rank(bits_op("xor", __get_rel_rank(lcmp),
                                                    __get_rel_rank(rcmp), 3)),
                             lcmp.operands[1], lcmp.operands[2])
            ELSE null
        both == /\ __is_compare_expr(expr.operands[1])
                /\ __is_compare_expr(expr.operands[2])
    IN CASE expr.kind = "BoolNot" ->
              IF __is_compare_expr(expr.operands[1])
              THEN __handle_not(expr.operands[1]) ELSE null
         [] expr.kind = "BoolOr" ->
              IF both THEN __handle_or(expr.operands[1], expr.operands[2])
              ELSE null
         [] expr.kind = "BoolAnd" ->
              IF both THEN __handle_and(expr.operands[1], expr.operands[2])
              ELSE null
         [] expr.kind = "EQ" ->
              IF both THEN __handle_eq(expr.operands[1], expr.operands[2])
              ELSE null
         [] OTHER -> null

_cond_folding(texpr) ==
    LET cond == texpr.operands[1]
    IN IF texpr.kind = "TCond" /\ cond.kind = "Val"
       THEN IF cond.value = 0 THEN texpr.operands[3] ELSE texpr.operands[2]
       ELSE null

_uexpr_rules == <<"_correct_ref", "_negate", "_converged_cond">>

_bexpr_rules == <<"_correct_arith", "_correct_sign", "_correct_bitwise",
                  "_equality", "_converged_cond", "_constant_folding",
                  "_ctx_fold_assoc", "_ctx_fold_arith">>

_texpr_rules == <<"_cond_folding">>

_select_rules_set(expr) ==
    IF expr.kind \in UExpr THEN _uexpr_rules
    ELSE IF expr.kind \in BExpr THEN _bexpr_rules
    ELSE IF expr.kind \in TExpr THEN _texpr_rules
    ELSE <<>>

\* rulesset[i](expr)
apply_rule(rule, expr) ==
    CASE rule = "_correct_ref" -> _correct_ref(expr)
      [] rule = "_negate" -> _negate(expr)
      [] rule = "_converged_cond" -> _converged_cond(expr)
      [] rule = "_correct_arith" -> _correct_arith(expr)
      [] rule = "_correct_sign" -> _correct_sign(expr)
      [] rule = "_correct_bitwise" -> _correct_bitwise(expr)
      [] rule = "_equality" -> _equality(expr)
      [] rule = "_constant_folding" -> _constant_folding(expr)
      [] rule = "_ctx_fold_assoc" -> _ctx_fold_assoc(expr)
      [] rule = "_ctx_fold_arith" -> _ctx_fold_arith(expr)
      [] rule = "_cond_folding" -> _cond_folding(expr)

\* the first rule of the set that fires decides; `ret` is what the function
\* returns and `e` is what stands in the place of expr afterwards
_reduce_expr_once(expr) ==
    LET rulesset == _select_rules_set(expr)
        RECURSIVE try(_)
        try(i) == IF i > Len(rulesset) THEN null
                  ELSE LET reduced == apply_rule(rulesset[i], expr)
                       IN IF reduced # null THEN reduced ELSE try(i + 1)
        reduced == try(1)
    IN [ret |-> reduced,
        e |-> IF reduced # null THEN reduced ELSE expr,
        spin |-> FALSE]

\* faulty variant of _reduce_expr_rec: the operands are gone over once
\* instead of until none of them is reduced any further
RECURSIVE _reduce_expr_rec_one_pass(_, _)
_reduce_expr_rec_one_pass(expr, fuel) ==
    LET RECURSIVE some(_, _)
        some(e, i) ==
            IF i > Len(e.operands) THEN [ret |-> null, e |-> e, spin |-> FALSE]
            ELSE LET r == _reduce_expr_rec_one_pass(e.operands[i], fuel)
                     e1 == [e EXCEPT !.operands[i] = r.e]
                 IN IF r.spin \/ r.ret # null
                    THEN [ret |-> r.ret, e |-> e1, spin |-> r.spin]
                    ELSE some(e1, i + 1)
        w == some(expr, 1)
    IN IF w.spin THEN w ELSE _reduce_expr_once(w.e)

\* `fuel` cuts the loop over the operands: `spin` tells it was cut
RECURSIVE _reduce_expr_rec(_, _)
_reduce_expr_rec(expr, fuel) ==
    LET RECURSIVE some(_, _)
        \* expr.operands.some(_reduce_expr_rec)
        some(e, i) ==
            IF i > Len(e.operands) THEN [ret |-> null, e |-> e, spin |-> FALSE]
            ELSE LET r == _reduce_expr_rec(e.operands[i], fuel)
                     e1 == [e EXCEPT !.operands[i] = r.e]
                 IN IF r.spin \/ r.ret # null
                    THEN [ret |-> r.ret, e |-> e1, spin |-> r.spin]
                    ELSE some(e1, i + 1)
        RECURSIVE while(_, _)
        while(e, left) ==
            LET r == some(e, 1)
            IN IF r.spin \/ r.ret = null THEN r
               ELSE IF left = 0 THEN [r EXCEPT !.spin = TRUE]
               ELSE while(r.e, left - 1)
        w == while(expr, fuel)
    IN IF w.spin THEN w ELSE _reduce_expr_once(w.e)

\* while (expr) expr = _reduce_expr_rec(expr), cut after `fuel` rounds
RECURSIVE _reduce_expr(_, _)
_reduce_expr(expr, fuel) ==
    LET r == _reduce_expr_rec(expr, Fuel)
    IN IF r.spin \/ r.ret = null THEN r
       ELSE IF fuel = 0 THEN [r EXCEPT !.spin = TRUE]
       ELSE _reduce_expr(r.e, fuel - 1)

(***************************************************************************)
(* The expressions reduce_expr is given: every binary operator over two    *)
(* leaves, constants hanging on a left operand that is itself an           *)
(* operation, negations, pairs of relations, and conditionals.  Long's     *)
(* division by zero is left out: no folded divisor is zero.                *)
(***************************************************************************)
Narrow == LongBits - 1
Regs == {Expr_Reg("x", LongBits), Expr_Reg("y", LongBits)}
Vals == {Expr_Val(c, LongBits) : c \in {0, 1, 2, 0 - 1, MinLong}}
            \cup {Expr_Val(MaxLong, Narrow)}
Leaves == Regs \cup Vals \cup {Expr_Reg("w", Narrow)}
Rels == {"EQ", "NE", "LT", "LE", "GT", "GE"}

\* what the two comparisons of a combination are over
RelOperands ==
    {Expr_Reg("x", LongBits), Expr_Reg("y", LongBits),
     Expr_Val(1, LongBits), Expr_Val(2, LongBits),
     Expr_B("Sub", Expr_Reg("x", LongBits), Expr_Val(1, LongBits)),
     Expr_B("Mul", Expr_Reg("x", LongBits), Expr_Reg("y", LongBits)),
     Expr_B("LT", Expr_Reg("x", LongBits), Expr_Reg("y", LongBits))}

\* two comparisons over the same operand pair under ||, && and ==, and the
\* negation of a comparison
RelInputs ==
    {Expr_B(bo, Expr_B(r1, a, b), Expr_B(r2, a, b)) :
        bo \in {"BoolAnd", "BoolOr", "EQ"}, r1 \in Rels, r2 \in Rels,
        a \in RelOperands, b \in RelOperands}
    \cup {Expr_U("BoolNot", Expr_B(r, a, b)) :
            r \in Rels, a \in RelOperands, b \in RelOperands}

FoldOps == {"Add", "Sub", "Mul", "Div", "Mod", "And", "Or", "Xor", "Shl", "Shr"}

\* an operation on two constants of the same size, of every size
FoldInputs ==
    UNION {{Expr_B(o, Expr_Val(wrap(v), w), Expr_Val(n, w)) :
                o \in FoldOps, v \in 0..(2 ^ w - 1), n \in {1, 2}} :
           w \in 1..LongBits}

\* expressions of every variant that reduce_expr leaves as they are
NegOperands ==
    LET x == Expr_Reg("x", LongBits)
        y == Expr_Reg("y", LongBits)
    IN {x, Expr_Val(0, LongBits), Expr_Val(5, LongBits), Expr_Val(1, 1),
        Expr_U("Neg", x), Expr_U("Deref", x), Expr_U("BoolNot", x)}
       \cup {Expr_B(o, x, y) :
                o \in {"Add", "Sub", "Mul", "And", "BoolAnd", "BoolOr"} \cup Rels}
       \cup {Expr_B(o, Expr_B("LT", x, y), x) : o \in {"BoolAnd", "BoolOr"}}
       \cup {Expr_B("BoolAnd", Expr_B("Add", x, y), x)}

NotNotInputs == {Expr_U("BoolNot", Expr_U("BoolNot", x)) : x \in NegOperands}

\* a difference compared with zero, of expressions that reduce_expr leaves
\* as they are; the subtrahend is a constant of either sign and of the
\* size of the zero or of another size, or is no constant
SubZeroX ==
    LET x == Expr_Reg("x", LongBits)
        y == Expr_Reg("y", LongBits)
    IN {x, Expr_Val(3, LongBits), Expr_U("Deref", x), Expr_B("Mul", x, y),
        Expr_B("Add", x, y), Expr_B("Sub", x, Expr_Val(1, LongBits))}

SubZeroY ==
    LET x == Expr_Reg("x", LongBits)
        y == Expr_Reg("y", LongBits)
    IN {y, Expr_U("Deref", y), Expr_B("Mul", x, y), Expr_B("Add", x, y)}
       \cup {Expr_Val(v, w) : v \in {0, 3, 0 - 3}, w \in {LongBits - 1, LongBits}}

SubZeroInputs ==
    {Expr_B("EQ", Expr_B("Sub", x, y), Expr_Val(0, LongBits)) :
        x \in SubZeroX, y \in SubZeroY}

Inputs ==
    LET x == Expr_Reg("x", LongBits)
        y == Expr_Reg("y", LongBits)
        pairs ==
            {Expr_B(bo, Expr_B(r1, x, y), Expr_B(r2, x, b)) :
                bo \in {"BoolAnd", "BoolOr", "EQ"}, r1 \in Rels, r2 \in Rels,
                b \in {x, y}}
    IN  ({Expr_B(o, a, b) : o \in BExpr, a \in Leaves, b \in Leaves}
            \ {Expr_B(o, a, b) : o \in {"Div", "Mod"}, a \in Vals,
                                 b \in {Expr_Val(0, LongBits)}})
        \cup {Expr_B(o0, Expr_B(o1, x, c1), c0) :
                o0 \in {"Add", "Sub", "Mul", "And", "Shl", "EQ", "LT"},
                o1 \in {"Add", "Sub", "Mul", "And", "Shr"},
                c1 \in Vals, c0 \in Vals}
        \cup {Expr_U("BoolNot", Expr_B(o, a, b)) :
                o \in {"BoolAnd", "BoolOr", "Add", "Sub", "Mul", "EQ", "LT"},
                a \in Regs \cup {Expr_Val(0, LongBits)},
                b \in Regs \cup {Expr_Val(0 - 1, LongBits),
                                 Expr_Val(MinLong, LongBits)}}
        \cup {Expr_U(u1, Expr_U(u2, a)) :
                u1 \in UExpr, u2 \in UExpr,
                a \in {x, Expr_Val(0, LongBits), Expr_Val(1, LongBits)}}
        \cup pairs
        \cup {Expr_U("BoolNot", p) : p \in pairs}
        \cup RelInputs
        \cup FoldInputs
        \cup NotNotInputs
        \cup SubZeroInputs
        \cup {Expr_T("TCond", c, x, y) :
                c \in Leaves \cup {Expr_B("EQ", a, b) : a \in Vals, b \in Vals}}

InitSimp ==
    /\ pc = [wave |-> 0, step |-> "simplify", pass |-> 0, changed |-> FALSE]
    /\ shape = 1
    /\ bodies = <<1, 1>>
    /\ ssa = <<>>
    /\ snap = <<>>
    /\ conf = DefaultConf
    /\ live = <<>>
    /\ sx \in {[input |-> e, expr |-> e, step |-> "reduce", seen |-> <<>>,
                 first |-> null] : e \in Inputs}

\* one round of the loop of _reduce_expr.  A round is a function of the
\* expression it starts from: once it gives back an expression that an
\* earlier round started from, the loop never ends
ReduceExpr ==
    /\ sx.step = "reduce"
    /\ LET r == _reduce_expr_rec(sx.expr, Fuel)
           seen == Append(sx.seen, sx.expr)
       IN sx' = IF r.spin THEN [sx EXCEPT !.expr = r.e, !.step = "spin"]
                ELSE IF r.ret = null
                THEN [sx EXCEPT !.expr = r.e, !.step = "reduced"]
                ELSE [sx EXCEPT !.expr = r.e, !.seen = seen,
                                !.step = IF r.e \in Range(seen) THEN "cycle"
                                         ELSE "reduce"]
    /\ UNCHANGED <<pc, shape, bodies, ssa, snap, conf, live>>

\* reduce_expr called on what reduce_expr left
ReduceAgain ==
    /\ sx.step = "reduced"
    /\ LET r == _reduce_expr(sx.expr, Fuel)
       IN sx' = [sx EXCEPT !.first = sx.expr, !.expr = r.e,
                           !.step = IF r.spin THEN "spin" ELSE "twice"]
    /\ UNCHANGED <<pc, shape, bodies, ssa, snap, conf, live>>

NextSimp ==
    \/ ReduceExpr
    \/ ReduceAgain

SpecSimp == InitSimp /\ [][NextSimp]_vars

(***************************************************************************)
(* The rule _equality by itself, over comparisons of registers that hold   *)
(* given values.                                                           *)
(***************************************************************************)
\* the values of a Long
Longs == MinLong..MaxLong

\* (x + c1) R c2 and (x - c1) R c2
ConstInputs ==
    {Expr_B(r, Expr_B(o, Expr_Reg("x", LongBits), c1), c2) :
        r \in Rels, o \in {"Add", "Sub"}, c1 \in Vals, c2 \in Vals}

\* (x + y) R 0 and (x - y) R 0
ZeroInputs ==
    {Expr_B(r, Expr_B(o, Expr_Reg("x", LongBits), Expr_Reg("y", LongBits)),
            Expr_Val(0, LongBits)) :
        r \in Rels, o \in {"Add", "Sub"}}

InitEq ==
    /\ pc = [wave |-> 0, step |-> "equality", pass |-> 0, changed |-> FALSE]
    /\ shape = 1
    /\ bodies = <<1, 1>>
    /\ ssa = <<>>
    /\ snap = <<>>
    /\ conf = DefaultConf
    /\ live = <<>>
    /\ sx \in {[input |-> e, expr |-> e, x |-> vx, y |-> 0] :
                 e \in ConstInputs, vx \in Longs}
              \cup {[input |-> e, expr |-> e, x |-> vx, y |-> vy] :
                      e \in ZeroInputs, vx \in Longs, vy \in Longs}

\* the comparison a rule gives, or the comparison itself when the rule
\* does not fire
rewritten(e, r) == IF r = null THEN e ELSE r

Equality ==
    /\ At("equality")
    /\ sx' = [sx EXCEPT !.expr = rewritten(sx.input, _equality(sx.input))]
    /\ Goto("rewritten")
    /\ UNCHANGED <<shape, bodies, ssa, snap, conf, live>>

NextEq == Equality

SpecEq == InitEq /\ [][NextEq]_vars

(***************************************************************************)
(* Properties.  The invariants of the SSA form are stated over the         *)
(* operands of the function's basic blocks, as Context.validate goes over  *)
(* them, and over the definitions table of the context.                    *)
(***************************************************************************)
FuncOps == Range(func_operands(ssa))
UninitOps == Range(stmts_operands(ssa, ssa.uninit, FALSE))
Assignable == {"Reg", "Var", "Deref"}

\* wave k has given its subscripts
Renamed(k) ==
    \/ pc.wave > k
    \/ pc.wave = k /\ pc.step \notin {"initialize", "insert_phi_exprs", "rename_rec"}

\* the wave that renames expressions of this class
WaveOf(kind) == IF kind = "Deref" THEN 3 ELSE IF kind = "Var" THEN 2 ELSE 1

IsUse(o) == ssa.nodes[o].kind \in Assignable /\ ~ssa.nodes[o].is_def

\* the definitions among S that carry the name and subscript of o
DefsIn(S, o) ==
    { d \in S : ssa.nodes[d].is_def /\ equals(ssa.nodes, d, o) }

IsPhiStmt(s) ==
    \E e \in Range(ssa.stmts[s].expressions) : is_phi_assignment(ssa.nodes, e)

\* C1: def-use consistency.  Once the wave of its class is over, every use
\* operand (a Reg, Var or Deref that is not a definition) has its def set,
\* and that definition's uses hold the operand exactly once.
C1_DefUseConsistent ==
    \A o \in FuncOps :
        (IsUse(o) /\ Renamed(WaveOf(ssa.nodes[o].kind))) =>
            /\ ssa.nodes[o].def # Null
            /\ Count(ssa.nodes[ssa.nodes[o].def].uses, o) = 1

C3_SingleAssignment ==
    /\ ~ssa.redefined
    /\ pc.step # "done" =>
        \A d \in FuncOps \cup UninitOps :
            (ssa.nodes[d].is_def /\ ssa.nodes[d].idx # NoIdx) =>
                Cardinality(DefsIn(FuncOps \cup UninitOps, d)) = 1

\* the three waves are over, and a name is defined under two subscripts
\* while a memory location is defined as well
C3_Witness ==
    /\ Renamed(3)
    /\ pc.step # "done"
    /\ \E d \in FuncOps, e \in FuncOps :
        /\ ssa.nodes[d].is_def /\ ssa.nodes[e].is_def
        /\ equals_no_idx(ssa.nodes, d, e)
        /\ ssa.nodes[d].idx > ssa.nodes[e].idx
        /\ ssa.nodes[e].idx > 0
    /\ \E d \in FuncOps : ssa.nodes[d].is_def /\ IsDeref(ssa.nodes[d])
                            /\ ssa.nodes[d].idx > 0

\* C4: phi arity.  Every phi assigned in a block has as many arguments as
\* the block has predecessors.
C4_PhiArity ==
    \A b \in DOMAIN ssa.blocks :
        \A i \in DOMAIN ssa.blocks[b] :
            \A e \in Range(ssa.stmts[ssa.blocks[b][i]].expressions) :
                is_phi_assignment(ssa.nodes, e) =>
                    Len(ssa.nodes[rhand_of(ssa, e)].operands)
                        = Len(predecessors(G, b))

\* an entry of ctx.defs is a definition, the left operand of the assignment
\* that is its parent, and that assignment is in a statement of `where`
DefsWellFormed(where) ==
    \A i \in DOMAIN ssa.defs :
        LET d == ssa.defs[i].v
            p == ssa.nodes[d].parent
            s == ssa.nodes[p].stmt
        IN /\ ssa.nodes[d].is_def
           /\ p # Null
           /\ IsAssign(ssa.nodes[p])
           /\ lhand_of(ssa, p) = d
           /\ s # Null
           /\ ssa.stmts[s].parent \in where

\* C5 as stated: every entry of ctx.defs, the subscript 0 placeholders
\* included, is a definition on the left of an assignment that is reachable
\* from the container of a basic block.
C5_DefsInBlocks == DefsWellFormed(DOMAIN ssa.blocks)

\* C5, amended: every entry of ctx.defs is a definition on the left of an
\* assignment that is reachable from the container of a basic block or from
\* the uninit container of the context.
C5_DefsInBlocksOrUninit == DefsWellFormed(DOMAIN ssa.blocks \cup {Uninit})

\* the optimizer has pruned or propagated a definition, and ctx.defs holds
\* a placeholder of the uninit container and a definition of a block
C5_Witness ==
    /\ pc.wave = 3
    /\ pc.changed
    /\ Len(ssa.uninit) > 0
    /\ \E i \in DOMAIN ssa.defs, j \in DOMAIN ssa.defs :
        /\ ssa.stmts[ssa.nodes[ssa.nodes[ssa.defs[i].v].parent].stmt].parent
                = Uninit
        /\ ssa.stmts[ssa.nodes[ssa.nodes[ssa.defs[j].v].parent].stmt].parent
                \in DOMAIN ssa.blocks

\* C6: phi grouping.  In every block the phi statements stand before every
\* other statement.
C6_PhisGrouped ==
    \A b \in DOMAIN ssa.blocks :
        \A i \in DOMAIN ssa.blocks[b], j \in DOMAIN ssa.blocks[b] :
            (i < j /\ IsPhiStmt(ssa.blocks[b][j])) => IsPhiStmt(ssa.blocks[b][i])

C8_ReduceTerminates == sx.step # "cycle"

RECURSIVE Subterms(_)
Subterms(e) ==
    {e} \cup UNION {Subterms(e.operands[i]) : i \in DOMAIN e.operands}

\* some rule of the node's rule set fires on the node
Fires(n) ==
    \E i \in DOMAIN _select_rules_set(n) :
        apply_rule(_select_rules_set(n)[i], n) # null

\* C9: reduce_expr is idempotent.  What reduce_expr leaves is a normal
\* form: no rule fires on any of its nodes, and reduce_expr called on it
\* leaves it as it is.
C9_ReduceIdempotent ==
    sx.step = "twice" =>
        /\ sx.expr = sx.first
        /\ \A n \in Subterms(sx.first) : ~Fires(n)

\* reduce_expr was called again on the outcome of a reduction that took
\* two rounds or more
C9_Witness == sx.step = "twice" /\ Len(sx.seen) >= 2

\* C10: optimizer idempotence.  The second run of the pass list changes
\* nothing: no pass reports a change, and the IR and ctx.defs are what the
\* first run left.
C10_SecondRunChangesNothing ==
    pc.step \in {"optimize_again", "transform_out"} =>
        (IR(ssa) = snap /\ ~pc.changed)

\* a relation as the set of the orderings of x and y it holds for
RelSet(kind) ==
    CASE kind = "EQ" -> {"eq"}
      [] kind = "LT" -> {"lt"}
      [] kind = "LE" -> {"lt", "eq"}
      [] kind = "GT" -> {"gt"}
      [] kind = "GE" -> {"gt", "eq"}
      [] kind = "NE" -> {"lt", "gt"}

Orderings == {"lt", "eq", "gt"}

\* the relation that holds for exactly the orderings of S; the constants
\* false and true for none and all of them
RelOf(S, x, y) ==
    IF S = {} THEN Expr_Val(0, 1)
    ELSE IF S = Orderings THEN Expr_Val(1, 1)
    ELSE Expr_B(CHOOSE k \in Rels : RelSet(k) = S, x, y)

\* what the rank algebra gives for a combination of comparisons
RelExpected(e) ==
    LET l == e.operands[1]
        L == RelSet(l.kind)
        R == RelSet(e.operands[2].kind)
    IN CASE e.kind = "BoolNot" -> RelOf(Orderings \ L, l.operands[1], l.operands[2])
         [] e.kind = "BoolOr" -> RelOf(L \cup R, l.operands[1], l.operands[2])
         [] e.kind = "BoolAnd" -> RelOf(L \cap R, l.operands[1], l.operands[2])
         [] e.kind = "EQ" ->
              RelOf(Orderings \ ((L \ R) \cup (R \ L)), l.operands[1], l.operands[2])

Reduced == sx.step \in {"reduced", "twice"}

\* the comparisons are over two constants, or over two comparisons, or
\* their left operand is an addition or a subtraction: _equality has a
\* rewriting of its own for these
RewrittenAlone(e) ==
    LET x == e.operands[1].operands[1]
        y == e.operands[1].operands[2]
    IN \/ x.kind = "Val" /\ y.kind = "Val"
       \/ x.kind \in Rels /\ y.kind \in Rels
       \/ x.kind \in {"Add", "Sub"}

\* C11 as stated: a combination of two comparisons over the same operand
\* pair, whatever the operands are, is reduced to the relation whose rank is
\* r1|r2 under ||, r1&r2 under &&, NOT(r1 XOR r2) under ==, and r XOR 111
\* under !.
C11_RankAlgebra ==
    (Reduced /\ sx.input \in RelInputs) => sx.expr = RelExpected(sx.input)

\* C11, amended: the same for reduced operands x and y that are not both
\* constants nor both comparisons, x being no addition and no subtraction
\* (such a comparison is rewritten before it is combined, and the relation
\* a combination gives may be rewritten after).
C11_RankAlgebraOfVariables ==
    (Reduced /\ sx.input \in RelInputs /\ ~RewrittenAlone(sx.input)) =>
        sx.expr = RelExpected(sx.input)

\* (x <= y) == (x >= y) was reduced, in two rounds, to a relation
C11_Witness ==
    /\ Reduced
    /\ sx.input \in RelInputs
    /\ ~RewrittenAlone(sx.input)
    /\ sx.input.kind = "EQ"
    /\ sx.input.operands[1].kind = "LE" /\ sx.input.operands[2].kind = "GE"
    /\ sx.expr.kind \in Rels

\* bit w-1 of a constant of size w
MsbSet(val) == (val.value % LongMod) \div 2 ^ (val.size - 1) % 2 = 1

\* the constant an operation on two constants stands for
Folded(e) ==
    Expr_Val(operations(e.kind, e.operands[1].value, e.operands[2].value),
             e.operands[1].size)

\* C12: an operation on two constants of size w is reduced to one constant
\* of that size; a right shift is when bit w-1 of its left constant is
\* zero, and is left as it is when that bit is set.
C12_SignSafeFolding ==
    (Reduced /\ sx.input \in FoldInputs) =>
        sx.expr = IF sx.input.kind = "Shr" /\ MsbSet(sx.input.operands[1])
                  THEN sx.input ELSE Folded(sx.input)

\* C13: the reduction of the negation of the negation of an expression
\* that is already reduced is that expression.
C13_DoubleNegation ==
    (Reduced /\ sx.input \in NotNotInputs) =>
        sx.expr = sx.input.operands[1].operands[1]

\* C14: the reduction of the comparison of x - y with zero, x and y already
\* reduced, is the comparison of x with y, y as it was.
C14_SubAgainstZero ==
    (Reduced /\ sx.input \in SubZeroInputs) =>
        sx.expr = Expr_B("EQ", sx.input.operands[1].operands[1],
                         sx.input.operands[1].operands[2])

\* C15: no step of the pipeline throws to its caller.
C15_NoPassThrows == pc.step # "crashed"

\* the definition made by the i-th statement of the uninit container
UninitDef(i) == lhand_of(ssa, ssa.stmts[ssa.uninit[i]].expressions[1])

\* the uses of the function that carry subscript 0
UsesOfEntryValues ==
    {u \in Range(func_operands(ssa)) : ~ssa.nodes[u].is_def /\ ssa.nodes[u].idx = 0}

\* C16: a statement of the uninit container is a weak definition
\* `name_0 = 0` that ctx.defs holds under its name, no two of them define
\* the same name, and a use that carries subscript 0 is once among the
\* users of the one of its name.
C16_ImplicitInit ==
    /\ \A i \in DOMAIN ssa.uninit :
          LET e == ssa.stmts[ssa.uninit[i]].expressions[1]
          IN /\ IsAssign(ssa.nodes[e])
             /\ ssa.nodes[UninitDef(i)].idx = 0
             /\ ssa.nodes[UninitDef(i)].weak
             /\ ssa.nodes[rhand_of(ssa, e)].kind = "Val"
             /\ ssa.nodes[rhand_of(ssa, e)].value = 0
             /\ Has(ssa.defs, toString(ssa.nodes, UninitDef(i)))
             /\ Get(ssa.defs, toString(ssa.nodes, UninitDef(i))) = UninitDef(i)
             /\ \A j \in DOMAIN ssa.uninit :
                   toString(ssa.nodes, UninitDef(j)) = toString(ssa.nodes, UninitDef(i))
                       => j = i
    /\ \A u \in UsesOfEntryValues :
          /\ ssa.nodes[u].def # Null
          /\ \E i \in DOMAIN ssa.uninit : UninitDef(i) = ssa.nodes[u].def
          /\ toString(ssa.nodes, ssa.nodes[u].def) = toString(ssa.nodes, u)
          /\ Count(ssa.nodes[ssa.nodes[u].def].uses, u) = 1

\* renaming has met two uses of a register that nothing defines before
\* them, and a use of a memory location likewise
C16_Witness ==
    /\ pc.step = "simplify_single_phi"
    /\ pc.wave = 3
    /\ \E i \in DOMAIN ssa.uninit :
          /\ IsReg(ssa.nodes[UninitDef(i)])
          /\ Len(ssa.nodes[UninitDef(i)].uses) >= 2
    /\ \E i \in DOMAIN ssa.uninit :
          /\ IsDeref(ssa.nodes[UninitDef(i)])
          /\ Len(ssa.nodes[UninitDef(i)].uses) >= 1

\* the assignments of block b that define `name`: the phis, and the others
PhisOf(b, name) ==
    {e \in Range(block_exprs(ssa, b)) :
        /\ is_phi_assignment(ssa.nodes, e)
        /\ repr(ssa.nodes, lhand_of(ssa, e)) = name}

DefsOf(b, name) ==
    {lhand_of(ssa, e) : e \in {a \in Range(block_exprs(ssa, b)) :
        /\ IsAssign(ssa.nodes[a])
        /\ ~is_phi_assignment(ssa.nodes, a)
        /\ repr(ssa.nodes, lhand_of(ssa, a)) = name}}

\* what the last statement of block b returns
Returned(b) == ssa.stmts[ssa.blocks[b][Len(ssa.blocks[b])]].expressions[1]

\* the registers are renamed and the phis relaxed; no Optimizer has run
AfterRelaxation ==
    pc.wave = 1 /\ pc.step = "optimize" /\ pc.pass = 1 /\ ~pc.changed

\* A -> {B, C} -> D with x = 1 in B, x = 2 in C and return x in D
DiamondScenario == shape = 2 /\ bodies = <<2, 9>>

\* C17: in the diamond scenario, after SSA construction and relaxation, D
\* holds one phi of x; it has two arguments, which are the definitions of B
\* and of C in the order of D's predecessors; the return reads the variable
\* of the phi; and the three definitions of x carry three subscripts.
C17_DiamondPhi ==
    (DiamondScenario /\ AfterRelaxation) =>
        /\ Cardinality(PhisOf(4, "x")) = 1
        /\ \A e \in PhisOf(4, "x") :
              LET args == ssa.nodes[rhand_of(ssa, e)].operands
                  def(j) == ssa.nodes[args[j]].def
              IN /\ Len(args) = 2
                 /\ predecessors(G, 4) = <<2, 3>>
                 /\ \A j \in 1..2 :
                       /\ DefsOf(predecessors(G, 4)[j], "x") = {def(j)}
                       /\ ssa.nodes[args[j]].idx = ssa.nodes[def(j)].idx
                       /\ Count(ssa.nodes[def(j)].uses, args[j]) = 1
                 /\ ssa.nodes[Returned(4)].def = lhand_of(ssa, e)
                 /\ ssa.nodes[Returned(4)].idx = ssa.nodes[lhand_of(ssa, e)].idx
                 /\ Cardinality({ssa.nodes[d].idx :
                                    d \in {lhand_of(ssa, e), def(1), def(2)}}) = 3
                 /\ \A d \in {lhand_of(ssa, e), def(1), def(2)} :
                       ssa.nodes[d].idx > 0

\* the diamond scenario, relaxed: D starts with a phi
C17_Witness ==
    /\ DiamondScenario
    /\ AfterRelaxation
    /\ PhisOf(4, "x") # {}
    /\ ssa.nodes[Returned(4)].def # Null

\* a loop that increments a register: x = 1 before the header, x = x + 1
\* in the body, whose edge to the header is the only back edge
LoopScenario == shape = 3 /\ bodies = <<2, 3>>

\* the Propagator of the register wave has rewritten something
Propagated == pc.wave = 1 /\ pc.step = "optimize" /\ pc.changed

\* block b holds one phi of x, of two arguments
OnePhiOfTwo(b) ==
    /\ Cardinality(PhisOf(b, "x")) = 1
    /\ \A e \in PhisOf(b, "x") : Len(ssa.nodes[rhand_of(ssa, e)].operands) = 2

\* C18: in the loop scenario the header holds one phi of x with two
\* arguments, the definition before the header and the one of the body;
\* relaxation keeps it, and the Propagator of safe definitions removes
\* neither the phi nor the definition made in the body.
C18_LoopPhi ==
    LoopScenario =>
        /\ AfterRelaxation =>
              /\ OnePhiOfTwo(2)
              /\ predecessors(G, 2) = <<1, 3>>
              /\ \A e \in PhisOf(2, "x"), j \in 1..2 :
                    DefsOf(predecessors(G, 2)[j], "x")
                        = {ssa.nodes[ssa.nodes[rhand_of(ssa, e)].operands[j]].def}
        /\ Propagated =>
              /\ OnePhiOfTwo(2)
              /\ DefsOf(3, "x") # {}
              /\ \A d \in DefsOf(3, "x") :
                    /\ Has(ssa.defs, toString(ssa.nodes, d))
                    /\ Get(ssa.defs, toString(ssa.nodes, d)) = d

\* C18, amended: in the loop scenario the header holds one phi of x with
\* two arguments, the definition before the header and the one of the body;
\* relaxation keeps it, and so does the Propagator of safe definitions,
\* which puts the value of the body's definition, read by the phi alone,
\* into the phi and removes that assignment.
C18_LoopPhiKept ==
    LoopScenario =>
        /\ AfterRelaxation =>
              /\ OnePhiOfTwo(2)
              /\ predecessors(G, 2) = <<1, 3>>
              /\ \A e \in PhisOf(2, "x"), j \in 1..2 :
                    DefsOf(predecessors(G, 2)[j], "x")
                        = {ssa.nodes[ssa.nodes[rhand_of(ssa, e)].operands[j]].def}
        /\ Propagated =>
              /\ OnePhiOfTwo(2)
              /\ \A e \in PhisOf(2, "x") :
                    /\ Get(ssa.defs, toString(ssa.nodes, lhand_of(ssa, e)))
                          = lhand_of(ssa, e)
                    /\ ssa.nodes[ssa.nodes[rhand_of(ssa, e)].operands[2]].kind = "Add"
                    /\ ssa.nodes[Returned(4)].def = lhand_of(ssa, e)
              /\ DefsOf(3, "x") = {}

\* the loop scenario after the Propagator of the register wave: the phi
\* is there
C18_Witness ==
    /\ LoopScenario
    /\ Propagated
    /\ PhisOf(2, "x") # {}

\* a pass of the Pruner is about to run, in the last Optimizer.run
PassAt(pass) ==
    /\ Optimizing
    /\ pc.wave = 3
    /\ PassList(pc.wave)[pc.pass] = pass

\* the definitions of a register that nothing uses and a call is assigned to
DeadCallResults ==
    {d \in Range(Keys(ssa.defs)) :
        LET def == Get(ssa.defs, d)
            asg == ssa.nodes[def].parent
        IN /\ asg # Null
           /\ Len(ssa.nodes[def].uses) = 0
           /\ IsReg(ssa.nodes[def])
           /\ IsCall(ssa.nodes[rhand_of(ssa, asg)])}

\* the operands nested in a call that use a definition
ArgumentUses(m, call) ==
    {u \in Range(iter_operands(m.nodes, call, FALSE)) : m.nodes[u].def # Null}

\* the call stands on its own: an expression of statement s, once, and of
\* no other expression
Standalone(m, call, s) ==
    /\ m.nodes[call].parent = Null
    /\ m.nodes[call].stmt = s
    /\ Count(m.stmts[s].expressions, call) = 1
    /\ \A n \in DOMAIN m.nodes : Count(m.nodes[n].operands, call) = 0

\* C19: a register definition without uses whose value is a call is not
\* removed by the pass of the dead registers; the pass of the dead results
\* takes its assignment out of the statement and its entry out of the
\* definitions, and leaves the call in the same statement of the same
\* block as an expression of its own, exactly once, every argument use of
\* the call registered once with its definition.
C19_CallSurvivesDeadStore ==
    [][\A d \in DeadCallResults :
          LET def == Get(ssa.defs, d)
              asg == ssa.nodes[def].parent
              call == rhand_of(ssa, asg)
              s == ssa.nodes[asg].stmt
          IN /\ PassAt("eliminate_dead_regs") =>
                  /\ Has(ssa'.defs, d)
                  /\ ssa'.nodes[asg].stmt = s
                  /\ Count(ssa'.stmts[s].expressions, asg) = 1
                  /\ ssa'.nodes[asg].operands = <<def, call>>
             /\ PassAt("eliminate_dead_results") =>
               /\ ~Has(ssa'.defs, d)
               /\ ssa'.nodes[asg].stmt = Null
               /\ Count(ssa'.stmts[s].expressions, asg) = 0
               /\ Standalone(ssa', call, s)
               /\ ssa'.stmts[s].parent = ssa.stmts[s].parent
               /\ Count(ssa'.blocks[ssa.stmts[s].parent], s) = 1
               /\ ArgumentUses(ssa', call) = ArgumentUses(ssa, call)
               /\ \A u \in ArgumentUses(ssa', call) :
                     Count(ssa'.nodes[ssa'.nodes[u].def].uses, u) = 1]_vars

\* a call with an argument stands on its own in a statement of a block:
\* the pass of the dead results has taken it out of its assignment
C19_Witness ==
    \E call \in DOMAIN ssa.nodes :
        /\ IsCall(ssa.nodes[call])
        /\ ssa.nodes[call].stmt # Null
        /\ Standalone(ssa, call, ssa.nodes[call].stmt)
        /\ ssa.stmts[ssa.nodes[call].stmt].parent >= 1
        /\ ArgumentUses(ssa, call) # {}
        /\ \A u \in ArgumentUses(ssa, call) :
              Count(ssa.nodes[ssa.nodes[u].def].uses, u) = 1

\* ssa_done has run remove_preserved_loc
PreservedKnown == pc.step = "analyzed" \/ (pc.step = "crashed" /\ ssa.preserved # <<>>)

\* the definitions made by the statements of block b, in their order
AssignedIn(b) ==
    LET RECURSIVE sel(_)
        sel(i) ==
            IF i > Len(ssa.blocks[b]) THEN <<>>
            ELSE LET e == ssa.stmts[ssa.blocks[b][i]].expressions
                 IN (IF e # <<>> /\ IsAssign(ssa.nodes[e[1]])
                     THEN <<lhand_of(ssa, e[1])>> ELSE <<>>) \o sel(i + 1)
    IN sel(1)

\* the definitions of a location, by the name it has without subscript
Named(defs, key) == SelectSeq(defs, LAMBDA d : repr(ssa.nodes, d) = key)

RECURSIVE ReachingDef(_, _)
\* the definition of the location that holds at the end of block b: the
\* last one the block makes, or else the one at the end of the block's
\* immediate dominator, or else the one of the function's entry
ReachingDef(b, key) ==
    IF Named(AssignedIn(b), key) # <<>>
    THEN Named(AssignedIn(b), key)[Len(Named(AssignedIn(b), key))]
    ELSE IF b # 1 THEN ReachingDef(idom(G, b), key)
    ELSE IF Has(ssa.defs, key \o "_0") THEN Get(ssa.defs, key \o "_0")
    ELSE Null

\* the value of the location at every exit is, through copies, the one the
\* definition `origin` of subscript 0 gave it
Restored(key, origin) ==
    /\ ssa.nodes[origin].idx = 0
    /\ repr(ssa.nodes, origin) = key
    /\ \A b \in Range(exit_blocks(G)) :
          _get_origin(ssa, ReachingDef(b, key)) = origin

RECURSIVE RestoreChain(_)
\* the definitions from `def` back to a definition of subscript 0, that
\* one left out
RestoreChain(def) ==
    IF def = Null \/ ssa.nodes[def].idx = 0 THEN {}
    ELSE LET rhand == rhand_of(ssa, ssa.nodes[def].parent)
         IN {def} \cup (IF IsReg(ssa.nodes[rhand]) \/ IsDeref(ssa.nodes[rhand])
                        THEN RestoreChain(ssa.nodes[rhand].def) ELSE {})

\* the locations that have a definition
Locations == {repr(ssa.nodes, ssa.defs[i].v) : i \in DOMAIN ssa.defs}

\* the definitions on the restore chains of the restored locations
OnRestoreChains ==
    UNION {RestoreChain(ReachingDef(b, key)) :
              b \in Range(exit_blocks(G)),
              key \in {k \in Locations : \E o \in DOMAIN ssa.nodes : Restored(k, o)}}

\* C20: a pair (def, origin) of preserved_locations names a location whose
\* value at the end of every exit block traces back through copies to
\* `origin`, the definition of subscript 0 of that location; a location
\* whose last definition in an exit block is no restore is not reported,
\* and remove_preserved_loc marks only definitions on restore chains.
C20_PreservedSound ==
    PreservedKnown =>
        /\ \A i \in DOMAIN ssa.preserved :
              Restored(repr(ssa.nodes, ssa.preserved[i][1]), ssa.preserved[i][2])
        /\ \A n \in DOMAIN ssa.nodes :
              ssa.nodes[n].prune => n \in OnRestoreChains

\* the steps of one wave, as the driver and _rename_wrapper call them
WaveSteps == <<"initialize", "insert_phi_exprs", "rename_rec", "simplify_single_phi",
               "simplify_self_ref_phi", "propagate_chained_phi", "ssa_step",
               "optimize">>

\* the subscript of a node before the step; a node the step makes had none
IdxBefore(n) == IF n \in DOMAIN ssa.nodes THEN ssa.nodes[n].idx ELSE NoIdx

\* the expressions the step gives a subscript
Subscripted ==
    {n \in DOMAIN ssa'.nodes :
        /\ ssa'.nodes[n].kind \in Assignable
        /\ IdxBefore(n) = NoIdx
        /\ ssa'.nodes[n].idx # NoIdx}

\* C21: the waves run in the order registers, local variables, memory
\* dereferences: a wave starts only when the Optimizer.run of the wave
\* before it is over, the steps of a wave follow one another in the order
\* initialize, phi insertion, renaming, the three relaxations, the step of
\* the architecture, Optimizer.run
\* and none is taken twice; an expression of the k-th class has no
\* subscript before the renaming of wave k (the steps copy expressions that
\* an earlier wave has renamed, subscript included).
C21_PipelineOrder ==
    [][/\ pc'.wave \in {pc.wave, pc.wave + 1}
       /\ pc'.wave = pc.wave + 1 =>
             /\ pc.step = "optimize"
             /\ pc.pass = Len(PassList(pc.wave))
             /\ pc'.step = "initialize"
       /\ (pc'.wave = pc.wave /\ pc.step # "optimize" /\ pc.step \in Range(WaveSteps)) =>
             pc'.step = WaveSteps[IndexOf(WaveSteps, pc.step) + 1]
       /\ (pc'.wave = pc.wave /\ pc.step = "optimize") =>
             pc'.step \notin Range(WaveSteps) \ {"optimize"}
       /\ pc.step \notin Range(WaveSteps) => pc'.step \notin Range(WaveSteps)
       /\ pc.step \in {"initialize", "insert_phi_exprs"} =>
             \A n \in Subscripted : WaveOf(ssa'.nodes[n].kind) < pc.wave
       /\ pc.step = "rename_rec" =>
             \A n \in Subscripted : WaveOf(ssa'.nodes[n].kind) <= pc.wave]_vars

\* the third wave is over: registers and memory dereferences have their
\* subscripts
C21_Witness ==
    /\ pc.wave = 3
    /\ pc.step = "optimize"
    /\ \E n \in DOMAIN ssa.nodes : ssa.nodes[n].kind = "Deref" /\ ssa.nodes[n].idx # NoIdx
    /\ \E n \in DOMAIN ssa.nodes : ssa.nodes[n].kind = "Reg" /\ ssa.nodes[n].idx # NoIdx

\* the operands of the address of a memory definition that use a
\* definition which has uses
AddressUsers(def) ==
    {o \in Range(iter_operands(ssa.nodes, ssa.nodes[def].operands[1], FALSE)) :
        /\ ssa.nodes[o].def # Null
        /\ Len(ssa.nodes[ssa.nodes[o].def].uses) > 0}

\* the definitions the step takes out of ctx.defs
Removed == {d \in Range(Keys(ssa.defs)) : ~Has(ssa'.defs, d)}

\* C22: the pass of the dead dereferences takes a definition out only if
\* it is a memory dereference without uses, and its value is a phi or the
\* noalias option is on or it is tagged safe, and it is tagged safe or no
\* operand of its address uses a definition that has uses; with noalias
\* off, a definition that is neither phi-valued nor safe stays, its
\* assignment in its statement.
C22_DeadDerefsAliasSafe ==
    [][PassAt("eliminate_dead_derefs") =>
          /\ \A d \in Removed :
                LET def == Get(ssa.defs, d)
                    val == rhand_of(ssa, ssa.nodes[def].parent)
                IN /\ Len(ssa.nodes[def].uses) = 0
                   /\ ssa.nodes[def].kind = "Deref"
                   /\ \/ ssa.nodes[val].kind = "Phi"
                      \/ conf.noalias
                      \/ ssa.nodes[def].is_safe
                   /\ ssa.nodes[def].is_safe \/ AddressUsers(def) = {}
          /\ \A d \in Range(Keys(ssa.defs)) :
                LET def == Get(ssa.defs, d)
                    asg == ssa.nodes[def].parent
                IN (/\ ~conf.noalias
                    /\ ssa.nodes[rhand_of(ssa, asg)].kind # "Phi"
                    /\ ~ssa.nodes[def].is_safe)
                   => /\ Has(ssa'.defs, d)
                      /\ ssa'.nodes[asg].stmt = ssa.nodes[asg].stmt
                      /\ ssa'.nodes[asg].stmt # Null]_vars

\* the function of one block that stores x at the stack register and
\* never reads the memory: the store is tagged safe, nothing uses it, and
\* the pass of the dead dereferences has taken it out
C22_Witness ==
    /\ shape = 1
    /\ bodies = <<1, 7>>
    /\ conf = [noalias |-> FALSE, stack |-> TRUE]
    /\ pc.wave = 3
    /\ \E n \in DOMAIN ssa.nodes :
          /\ ssa.nodes[n].kind = "Deref"
          /\ ssa.nodes[n].is_def
          /\ ssa.nodes[n].idx = 1
          /\ ssa.nodes[n].is_safe
          /\ ssa.nodes[ssa.nodes[n].parent].stmt = Null
          /\ ~Has(ssa.defs, toString(ssa.nodes, n))

\* the names the wave's selector picks among the definitions of block b
DefinedIn(b) ==
    {toString(ssa.nodes, o) :
        o \in {n \in Range(stmts_operands(ssa, ssa.blocks[b], FALSE)) :
                  ssa.nodes[n].is_def /\ selector(Waves[pc.wave], ssa.nodes[n])}}

\* the dominance frontier of a set of blocks
DF(S) == UNION {Range(dominanceFrontier(G, n)) : n \in S}

RECURSIVE IDFrec(_, _)
IDFrec(S, acc) == IF DF(S \cup acc) = acc THEN acc ELSE IDFrec(S, DF(S \cup acc))

\* the iterated dominance frontier of a set of blocks
IDF(S) == IDFrec(S, {})

\* the positions in block y of the statements the step puts there
NewAt(y) == {i \in DOMAIN ssa'.blocks[y] : ssa'.blocks[y][i] \notin Range(ssa.blocks[y])}

\* the assignment of the statement at position i of block y, after the step
AssignAt(y, i) == ssa'.stmts[ssa'.blocks[y][i]].expressions[1]

\* C23: insert_phi_exprs puts a phi of v at the top of block y exactly for
\* the blocks y of the iterated dominance frontier of the blocks that
\* define v, v a name the wave's selector picks: one phi per name and
\* block, with one argument per predecessor of y, each the name itself,
\* its defined variable weak; it puts nothing else anywhere.
C23_PhiPlacement ==
    [][At("insert_phi_exprs") =>
          \A y \in Blocks(G) :
              /\ NewAt(y) = 1..Cardinality(NewAt(y))
              /\ \A i \in NewAt(y) :
                    /\ is_phi_assignment(ssa'.nodes, AssignAt(y, i))
                    /\ ssa'.nodes[lhand_of(ssa', AssignAt(y, i))].weak
                    /\ ssa'.nodes[lhand_of(ssa', AssignAt(y, i))].is_def
                    /\ Len(ssa'.nodes[rhand_of(ssa', AssignAt(y, i))].operands)
                          = Len(predecessors(G, y))
                    /\ \A a \in Range(ssa'.nodes[rhand_of(ssa', AssignAt(y, i))].operands) :
                          equals(ssa'.nodes, a, lhand_of(ssa', AssignAt(y, i)))
              /\ \A i, j \in NewAt(y) :
                    equals(ssa'.nodes, lhand_of(ssa', AssignAt(y, i)),
                           lhand_of(ssa', AssignAt(y, j))) => i = j
              /\ {toString(ssa'.nodes, lhand_of(ssa', AssignAt(y, i))) : i \in NewAt(y)}
                    = {v \in UNION {DefinedIn(b) : b \in Blocks(G)} :
                          y \in IDF({b \in Blocks(G) : v \in DefinedIn(b)})}]_vars

\* phis have been inserted in the chain of joins for a name defined only
\* in block 3: the second join, block 5, has its phi because the first,
\* block 4, got one
C23_Witness ==
    /\ shape = 4
    /\ bodies = <<1, 2>>
    /\ pc.wave = 1
    /\ pc.step = "rename_rec"
    /\ \E s \in Range(ssa.blocks[5]) :
          /\ is_phi_assignment(ssa.nodes, ssa.stmts[s].expressions[1])
          /\ repr(ssa.nodes, lhand_of(ssa, ssa.stmts[s].expressions[1])) = "x"

\* rename_rec of the wave has just returned
JustRenamed == pc.step = "simplify_single_phi"

\* the expression is of the class the wave renames
OfWave(n) == selector(Waves[pc.wave], ssa.nodes[n])

\* the subscript of a definition; none stands for the value on entry
IdxOf(d) == IF d = Null THEN 0 ELSE ssa.nodes[d].idx

\* the assignment of the statement at position i of block b, if it is one
AssignOf(b, i) ==
    LET es == ssa.stmts[ssa.blocks[b][i]].expressions
    IN IF es # <<>> /\ IsAssign(ssa.nodes[es[1]]) THEN es[1] ELSE Null

\* the subscript the name has before statement i of block b: the one of
\* its last definition before it in the block, or else the one it has at
\* the end of the immediate dominator, or else 0
IdxBeforeStmt(b, i, key) ==
    LET before == {j \in 1..(i - 1) :
                      /\ AssignOf(b, j) # Null
                      /\ repr(ssa.nodes, lhand_of(ssa, AssignOf(b, j))) = key}
    IN IF before # {}
       THEN ssa.nodes[lhand_of(ssa, AssignOf(b, CHOOSE j \in before :
                                                  \A k \in before : k <= j))].idx
       ELSE IF b # 1 THEN IdxOf(ReachingDef(idom(G, b), key))
       ELSE 0

RECURSIVE Preorder(_)
\* the blocks in the order rename_rec visits them
Preorder(b) ==
    LET RECURSIVE sub(_)
        sub(Xs) == IF Xs = <<>> THEN <<>> ELSE Preorder(Head(Xs)) \o sub(Tail(Xs))
    IN <<b>> \o sub(domSuccessors(G, b))

\* the definitions made in the blocks, block after block
AssignedAlong(order) == Flatten([i \in DOMAIN order |-> AssignedIn(order[i])])

\* the definitions of the wave's class in the order rename_rec meets them
RenamingOrder == SelectSeq(AssignedAlong(Preorder(1)), OfWave)

\* the k-th definition of a name in the sequence has subscript k
CountedUp(order) ==
    \A k \in DOMAIN order :
        ssa.nodes[order[k]].idx =
            Len(Named(SubSeq(order, 1, k), repr(ssa.nodes, order[k])))

\* C24: after rename_rec, every use of a name in a statement that is no
\* phi assignment has the subscript the name had before the statement,
\* also when the statement defines the name; the k-th definition of a
\* name that rename_rec meets has subscript k, above the subscript of
\* every use of the name in its own statement.
C24_UsesBeforeDefs ==
    JustRenamed =>
        /\ \A b \in Blocks(G) : \A i \in DOMAIN ssa.blocks[b] :
              \A e \in Range(ssa.stmts[ssa.blocks[b][i]].expressions) :
                  ~is_phi_assignment(ssa.nodes, e) =>
                      \A u \in Range(iter_operands(ssa.nodes, e, TRUE)) :
                          (OfWave(u) /\ ~ssa.nodes[u].is_def) =>
                              /\ ssa.nodes[u].idx = IdxBeforeStmt(b, i, repr(ssa.nodes, u))
                              /\ AssignOf(b, i) # Null =>
                                    (repr(ssa.nodes, lhand_of(ssa, AssignOf(b, i)))
                                        = repr(ssa.nodes, u)
                                     => ssa.nodes[u].idx
                                          < ssa.nodes[lhand_of(ssa, AssignOf(b, i))].idx)
        /\ CountedUp(RenamingOrder)

\* the registers have been renamed and some statement reads and writes x:
\* x_2 = x_1 + 1
C24_Witness ==
    /\ JustRenamed
    /\ pc.wave = 1
    /\ \E e \in DOMAIN ssa.nodes :
          /\ IsAssign(ssa.nodes[e])
          /\ ssa.nodes[e].stmt # Null
          /\ toString(ssa.nodes, e) = "x_2 = (x_1 + 1)"

\* the phi assignments of block Y whose variable is of the wave's class
PhisOfWave(Y) ==
    {e \in Range(block_exprs(ssa, Y)) :
        is_phi_assignment(ssa.nodes, e) /\ OfWave(lhand_of(ssa, e))}

\* C25: after rename_rec, the j-th argument of every phi of the wave's
\* class in block Y has the subscript its name has at the end of the j-th
\* predecessor of Y, for every position j of the predecessor list, and is
\* a use of that definition, held once in its uses.
C25_PhiArgsRenamedOnce ==
    JustRenamed =>
        \A Y \in Blocks(G) : \A e \in PhisOfWave(Y) :
            /\ Len(ssa.nodes[rhand_of(ssa, e)].operands) = Len(predecessors(G, Y))
            /\ \A j \in DOMAIN predecessors(G, Y) :
                  LET arg == ssa.nodes[rhand_of(ssa, e)].operands[j]
                  IN /\ ssa.nodes[arg].idx
                          = IdxOf(ReachingDef(predecessors(G, Y)[j], repr(ssa.nodes, arg)))
                     /\ ssa.nodes[arg].def # Null
                     /\ equals(ssa.nodes, ssa.nodes[arg].def, arg)
                     /\ Count(ssa.nodes[ssa.nodes[arg].def].uses, arg) = 1

\* _rename_wrapper of the wave has just returned
JustRelaxed == pc.step = "ssa_step"

\* the definitions of ctx.defs that a phi is assigned to
PhiDefs ==
    {d \in {ssa.defs[i].v : i \in DOMAIN ssa.defs} :
        /\ ssa.nodes[d].parent # Null
        /\ IsPhi(ssa.nodes[rhand_of(ssa, ssa.nodes[d].parent)])}

\* the arguments of the phi assigned to a definition
ArgsOf(d) == ssa.nodes[rhand_of(ssa, ssa.nodes[d].parent)].operands

\* simplify_single_phi would rewrite the assignment
SinglePhi(d) == Len(ArgsOf(d)) = 1

\* simplify_self_ref_phi would rewrite the assignment
SelfRefPhi(d) ==
    /\ Len(ArgsOf(d)) = 2
    /\ \E i \in 1..2 : equals(ssa.nodes, ArgsOf(d)[i], d)

\* propagate_chained_phi would fold the phi into the phi that uses it
ChainedPhi(d) ==
    /\ Len(ssa.nodes[d].uses) = 1
    /\ ssa.nodes[ssa.nodes[d].uses[1]].parent # Null
    /\ IsPhi(ssa.nodes[ssa.nodes[ssa.nodes[d].uses[1]].parent])

\* C26: when _rename_wrapper returns, no definition is assigned a phi of
\* one argument, none a phi of two arguments one of which is the
\* definition itself, and none a phi whose only use is an argument of a
\* phi: the three relaxation steps would change nothing.
C26_RelaxationFixpoint ==
    JustRelaxed =>
        \A d \in PhiDefs : ~SinglePhi(d) /\ ~SelfRefPhi(d) /\ ~ChainedPhi(d)

\* get_live_ranges has returned
Queried == pc.step = "queried"

\* the blocks of the backward walk
Walked == Range(live.walk.visited)

\* what the walk took as alive at the entry of a block
AliveAtEntry(b) == Get(live.walk.entry, b)

\* the definitions that no use has killed among the ranges of a block
AliveAtExit(p) == Range(live_only(Get(live.walk.ranges, p)))

NoDups(seq) == \A i, j \in DOMAIN seq : seq[i] = seq[j] => i = j

\* C27: in get_live_ranges, the definitions alive at the entry of every
\* block of the backward walk but the entry block are, without duplicates,
\* those alive at the exit of one of its predecessors, whichever way and
\* however often the walk comes to the predecessor; the walk visits a
\* block once, so it ends on graphs with cycles.
C27_LiveUnion ==
    Queried =>
        /\ NoDups(live.walk.visited)
        /\ \A b \in Walked \ {1} :
              /\ NoDups(AliveAtEntry(b))
              /\ Range(AliveAtEntry(b)) =
                     UNION {AliveAtExit(p) : p \in Range(predecessors(G, b))}

\* the container of the statement that makes a definition
DefBlock(d) == ssa.stmts[parent_stmt(ssa.nodes, d)].parent

\* the definition is made before statement i of block b is reached: in the
\* uninit container, in a block that strictly dominates b, or earlier in b
DefinedBefore(d, b, i) ==
    \/ DefBlock(d) = Uninit
    \/ /\ DefBlock(d) # b
       /\ DefBlock(d) \in Blocks(G)
       /\ Dominates(G, DefBlock(d), b)
    \/ /\ DefBlock(d) = b
       /\ IndexOf(ssa.blocks[b], parent_stmt(ssa.nodes, d)) < i

\* the definition is made by the end of block p
DefinedAtEnd(d, p) == DefinedBefore(d, p, Len(ssa.blocks[p]) + 1)

\* every name's stack is as initialize left it
StackRestored == \A i \in DOMAIN ssa.stack : ssa.stack[i].v = <<0>>

\* C28: after rename_rec, over a graph whose blocks are all reachable,
\* every use outside a phi is a use of a definition of its name and
\* subscript that is made in the uninit container, in a dominator of the
\* use's block or earlier in that block; the j-th argument of a phi of
\* block Y is a use of a definition made in the uninit container or in a
\* dominator of the j-th predecessor of Y; and every stack is back to what
\* it was before the entry block was renamed.
C28_Dominance ==
    JustRenamed =>
        /\ \A b \in Blocks(G) : \A i \in DOMAIN ssa.blocks[b] :
              \A e \in Range(ssa.stmts[ssa.blocks[b][i]].expressions) :
                  ~is_phi_assignment(ssa.nodes, e) =>
                      \A u \in Range(iter_operands(ssa.nodes, e, TRUE)) :
                          (OfWave(u) /\ ~ssa.nodes[u].is_def) =>
                              /\ ssa.nodes[u].def # Null
                              /\ equals(ssa.nodes, ssa.nodes[u].def, u)
                              /\ DefinedBefore(ssa.nodes[u].def, b, i)
        /\ \A Y \in Blocks(G) : \A e \in PhisOfWave(Y) :
              \A j \in DOMAIN ssa.nodes[rhand_of(ssa, e)].operands :
                  LET arg == ssa.nodes[rhand_of(ssa, e)].operands[j]
                  IN /\ j <= Len(predecessors(G, Y))
                     /\ ssa.nodes[arg].def # Null
                     /\ equals(ssa.nodes, ssa.nodes[arg].def, arg)
                     /\ DefinedAtEnd(ssa.nodes[arg].def, predecessors(G, Y)[j])
        /\ StackRestored

RECURSIVE ValueOf(_, _, _)
\* the value of an arithmetic expression when x and y hold vx and vy:
\* sums, differences and negations are taken modulo 2^LongBits
ValueOf(e, vx, vy) ==
    CASE e.kind = "Val" -> wrap(e.value)
      [] e.kind = "Reg" -> IF e.name = "x" THEN vx ELSE vy
      [] e.kind = "Neg" -> Long_neg(ValueOf(e.operands[1], vx, vy))
      [] OTHER -> operations(e.kind, ValueOf(e.operands[1], vx, vy),
                             ValueOf(e.operands[2], vx, vy))

\* the relation between two values, as signed numbers
Related(r, a, b) ==
    CASE r = "EQ" -> a = b
      [] r = "NE" -> a # b
      [] r = "LT" -> a < b
      [] r = "LE" -> a <= b
      [] r = "GT" -> a > b
      [] OTHER -> a >= b

\* the truth value of a comparison when x and y hold vx and vy
TruthOf(e, vx, vy) ==
    Related(e.kind, ValueOf(e.operands[1], vx, vy), ValueOf(e.operands[2], vx, vy))

\* C29: the comparison that _equality gives for (x + c1) R c2,
\* (x - c1) R c2, (x - y) R 0 and (x + y) R 0 is true for the values of x
\* and y for which the comparison it was given is true, for each of the six
\* relations R, sums and differences taken modulo 2^w.
C29_EqualityPreservesValue ==
    (pc.step = "rewritten") =>
        TruthOf(sx.expr, sx.x, sx.y) = TruthOf(sx.input, sx.x, sx.y)

\* the pass Optimizer.run is about to run
ThePass == PassList(pc.wave)[pc.pass]

\* the next step is Pruner.prototype.run
Pruning == Optimizing /\ ThePass \in Range(Pruners)

\* the assignment of the definition that ctx.defs holds under a key
AssignmentOf(d) == ssa.nodes[Get(ssa.defs, d)].parent

\* the keys whose definition the selector of the pass selects as the
\* context is before the run
SelectedNow ==
    {d \in Range(Keys(ssa.defs)) :
        Pruner_selector(ssa, ThePass, lhand_of(ssa, AssignmentOf(d)),
                        rhand_of(ssa, AssignmentOf(d)))}

\* the assignment is in no statement after the step
Plucked(asg) ==
    /\ ssa'.nodes[asg].stmt = Null
    /\ \A s \in DOMAIN ssa'.stmts : asg \notin Range(ssa'.stmts[s].expressions)

\* the assignment is after the step where it was before
InPlace(asg) ==
    /\ ssa'.nodes[asg].stmt = ssa.nodes[asg].stmt
    /\ ssa'.nodes[asg].stmt # Null
    /\ asg \in Range(ssa'.stmts[ssa'.nodes[asg].stmt].expressions)
    /\ ssa'.stmts[ssa'.nodes[asg].stmt].parent = ssa.stmts[ssa.nodes[asg].stmt].parent

\* C30: a run of a Pruner returns true exactly when its selector selects
\* some definition; the assignment of every definition it takes out of
\* ctx.defs is plucked, the other entries of ctx.defs stay as they are and
\* in their order, their assignments in place; a run that returns true
\* leaves ctx.defs shorter and is followed by another run of the pass, and
\* a run that returns false ends the pass, so a pass ends after at most
\* |ctx.defs| + 1 runs.
C30_PrunerExact ==
    [][Pruning =>
          /\ ssa'.ret <=> (SelectedNow # {})
          /\ ssa'.ret <=> (Removed # {})
          /\ ssa'.defs = SelectSeq(ssa.defs, LAMBDA e : e.key \notin Removed)
          /\ \A d \in Removed : Plucked(AssignmentOf(d))
          /\ \A d \in Range(Keys(ssa.defs)) \ Removed : InPlace(AssignmentOf(d))
          /\ ssa'.ret => /\ Len(ssa'.defs) < Len(ssa.defs)
                         /\ pc'.step = pc.step /\ pc'.pass = pc.pass
          /\ ~ssa'.ret => (pc'.step # pc.step \/ pc'.pass # pc.pass)]_vars

\* x = 1; x = 2; return x: the Propagator puts 2 into the return and takes
\* x_2 out; x_1 has no use, which no Propagator selects, and is gone after
\* the run of the pass of the dead registers, which is to run again
C30_Witness ==
    /\ shape = 1
    /\ bodies = <<2, 9>>
    /\ pc.wave = 3
    /\ pc.step = "optimize"
    /\ ThePass = "eliminate_dead_regs"
    /\ pc.changed
    /\ ssa.ret
    /\ ~Has(ssa.defs, "x_1")
    /\ \E e \in DOMAIN ssa.nodes :
          /\ IsAssign(ssa.nodes[e])
          /\ toString(ssa.nodes, e) = "x_1 = 1"
          /\ ssa.nodes[e].stmt = Null

====
